---- MODULE Spec2Model ----
(***************************************************************************)
(* The scan orchestrator of scythe-database (src-tauri/src/commands.rs,   *)
(* start_scan and cancel_operation) together with the walker              *)
(* (scanner.rs), the indexer (indexer.rs), the dependency resolver         *)
(* (deps.rs), the catalog operations they call (db.rs) and the flags of    *)
(* the application state (state.rs).                                       *)
(*                                                                         *)
(* Every start_scan dispatches one background worker.  A worker is a       *)
(* sequential program; its steps are cut where it reads the shared cancel  *)
(* flag or writes the catalog, so that every interleaving of workers,      *)
(* cancel requests and catalog readers that the code allows is a           *)
(* behaviour of the model.                                                 *)
(***************************************************************************)
EXTENDS Integers, Sequences, FiniteSets, TLC

(***************************************************************************)
(* Bounds of the model.                                                    *)
(***************************************************************************)
\* number of files the scanned tree can hold
MaxFiles == 2
\* number of start_scan commands issued
MaxScans == 2
\* number of seconds the wall clock advances
MaxClock == 1
\* batch_size handed to scan_files_batch; commands.rs:191 passes 25,
\* scaled down here so that a tree of MaxFiles files fills a batch
BatchSize == 2
\* count_scannable_files reports progress every 100 files
\* (scanner.rs:278), scaled down likewise
ProgressEvery == 2

NoneV == "none"

(***************************************************************************)
(* The file system.  The files a tree can hold are numbered; the number    *)
(* of a file stands for its relative path.  A file has an extension, the   *)
(* GUID of its sidecar .meta file (NoneV when there is no valid sidecar)   *)
(* and its text: the GUIDs that follow "guid:" in it, in order, one entry  *)
(* per occurrence.  A tree is the ascending sequence of the files present, *)
(* which is the order the walk yields them in.                             *)
(***************************************************************************)
FileKinds ==
  << [ext |-> "mat",    guid |-> NoneV, text |-> <<"ga", "gx">>],
     [ext |-> "png",    guid |-> "ga",  text |-> <<>>],
     [ext |-> "txt",    guid |-> NoneV, text |-> <<>>],
     [ext |-> "mat",    guid |-> "gm",  text |-> <<"ga", "gm", "ga">>],
     [ext |-> "prefab", guid |-> "gp",  text |-> <<"gm", "gp", "gs">>],
     [ext |-> "unity",  guid |-> "gs",  text |-> <<"gp", "ga">>],
     [ext |-> "shader", guid |-> "gm",  text |-> <<>>],
     [ext |-> "meta",   guid |-> NoneV, text |-> <<>>],
     [ext |-> "PNG",    guid |-> NoneV, text |-> <<>>],
     [ext |-> "META",   guid |-> NoneV, text |-> <<>>] >>

FileAt(p) == FileKinds[((p - 1) % Len(FileKinds)) + 1]

\* a finite set of integers as the ascending sequence of its elements
SortedSeq(S) ==
  CHOOSE s \in [1..Cardinality(S) -> S] :
    \A i, j \in 1..Cardinality(S) : i < j => s[i] < s[j]

\* the trees scanned: the first n files, for every n up to MaxFiles
Trees == { SortedSeq(1..n) : n \in 0..MaxFiles }

\* scanner.rs classify_file: extension -> asset kind
\* e.to_string_lossy().to_lowercase(), on the extensions of FileKinds
to_lowercase(ext) ==
  CASE ext = "PNG" -> "png"
    [] ext = "META" -> "meta"
    [] OTHER -> ext

\* a classifier that gives every file a tag of its own making
classify_file_open(path_ext) == "other"

classify_file(path_ext) ==
  LET ext == to_lowercase(path_ext) IN
  CASE ext \in {"png", "jpg", "jpeg", "tga", "psd", "bmp", "gif", "exr", "hdr"} -> "texture"
    [] ext \in {"fbx", "obj", "blend", "dae", "gltf", "glb", "3ds", "max"} -> "model"
    [] ext = "mat" -> "material"
    [] ext = "prefab" -> "prefab"
    [] ext \in {"wav", "mp3", "ogg", "aiff", "aif", "flac"} -> "audio"
    [] ext \in {"shader", "shadergraph", "shadersubgraph", "compute", "cginc", "hlsl", "glsl"} -> "shader"
    [] ext = "unity" -> "scene"
    [] ext = "asset" -> "scriptable_object"
    [] OTHER -> "unknown"

\* the test both walks apply to a file: not a .meta file, kind known
Scannable(p) == FileAt(p).ext # "meta" /\ classify_file(FileAt(p).ext) # "unknown"

ParseableKinds == {"material", "prefab", "scene", "scriptable_object"}

VARIABLES
  tree,          \* the scanned directory tree
  cancel_flag,   \* AppState.cancel_flag
  scan_running,  \* AppState.scan_running
  assets,        \* table assets: set of rows
  dependencies,  \* table dependencies: set of rows
  project,       \* the row of table projects bound to the root
  clock,         \* wall clock, in seconds
  nscans,        \* start_scan calls that dispatched a worker so far
  wk,            \* wk[w]: the local state of worker w
  log,           \* log[w]: what worker w emitted and wrote, in order
  hist,          \* hist[w]: history of the scan of worker w
  past,          \* history of the scans that ended
  sb,            \* a call of scan_files_batch with a map of existing assets
  rs,            \* history of a resolve pass run twice
  dt,            \* a call of get_dependency_tree
  ex,            \* a call of export_bundle or export_file
  pj,            \* table projects and the calls of get_or_create_project
  wl,            \* a walk of a tree with ignored directories
  up,            \* table assets under a sequence of upsert_asset calls
  pg,            \* the pages of get_assets read one after the other
  th,            \* the worker of regenerate_thumbnails
  rt,            \* settings.project_root, table projects and the roots scanned
  rc             \* a rescan of a tree that changed since the catalog was written

\* the variables of the calls studied by themselves, outside a scan
calls == <<sb, rs, dt, ex, pj, wl, up, pg, th, rt, rc>>

\* the calls that the walks of one function leave alone
later == <<ex, pj, wl, up, pg, th, rt, rc>>

\* the calls added last, which every earlier one leaves alone
more == <<pg, th, rt, rc>>

vars == <<tree, cancel_flag, scan_running, assets, dependencies, project,
          clock, nscans, wk, log, hist, past, sb, rs, dt, ex, pj, wl, up,
          pg, th, rt, rc>>

\* The threads of the blocking pool that run scan workers.  A thread runs
\* one scan at a time and takes the next when its scan has ended; log[w]
\* and hist[w] are those of the scan w runs, or ran last.
Workers == {"t1", "t2"}

IdleWorker ==
  [pc |-> "idle", scan |-> 0, i |-> 0, count |-> 0, total_files |-> 0, now |-> 0,
   batch |-> <<>>, total_count |-> 0, k |-> 0,
   file_count |-> 0, depList |-> <<>>, d |-> 0, pending |-> {}]

NoCatalog == [assets |-> {}, dependencies |-> {}, project |-> <<>>]

IdleHist ==
  [held |-> FALSE, requested |-> FALSE, prevCancelled |-> FALSE,
   prevComplete |-> FALSE, overlap |-> FALSE,
   sawCount |-> FALSE, sawIndex |-> FALSE, logAtSaw |-> 0,
   catStart |-> NoCatalog, catEnd |-> NoCatalog,
   prevEdges |-> {}, freshEdges |-> {}]

Active(w) == wk[w].pc \notin {"idle", "done"}
Done(w) == wk[w].pc = "done"

(***************************************************************************)
(* Catalog operations (db.rs).  Every operation takes its own pooled       *)
(* connection and runs one statement in autocommit mode, so each is one    *)
(* atomic step that the other connections see at once.                     *)
(***************************************************************************)
\* INSERT ... ON CONFLICT(project_id, relative_path) DO UPDATE SET ...:
\* the columns id and created_at are not in the SET list
\* the conflict target of upsert_asset: UNIQUE(project_id, relative_path)
SameKey(r, a) == r.project_id = a.project_id /\ r.path = a.path

\* an upsert that replaces the whole row (INSERT OR REPLACE)
upsert_asset_replace(rows, a) ==
  { r \in rows : ~SameKey(r, a) } \cup {a}

upsert_asset(rows, a) ==
  IF \E r \in rows : SameKey(r, a)
    THEN { IF SameKey(r, a)
             THEN [a EXCEPT !.id = r.id, !.created_at = r.created_at]
             ELSE r : r \in rows }
    ELSE rows \cup {a}

\* UPDATE assets SET thumbnail_path = ?1 WHERE id = ?2
update_asset_thumbnail(rows, asset_id, thumbnail_path) ==
  { IF r.id = asset_id THEN [r EXCEPT !.thumbnail_path = thumbnail_path]
                       ELSE r : r \in rows }

\* an insert that stores nothing
insert_dependency_lost(deps, dep) == deps

\* INSERT OR REPLACE INTO dependencies, primary key id
insert_dependency(deps, dep) ==
  { r \in deps : r.id # dep.id } \cup {dep}

\* a delete that removes nothing
delete_dependencies_for_asset_none(deps, asset_id) == deps

\* DELETE FROM dependencies WHERE from_asset_id = ?1
delete_dependencies_for_asset(deps, asset_id) ==
  { r \in deps : r.from_asset_id # asset_id }

\* SELECT ... FROM dependencies WHERE from_asset_id = ?1
get_dependencies(deps, asset_id) ==
  { r \in deps : r.from_asset_id = asset_id }

\* a lookup that takes the carrier of the GUID from any project
get_asset_by_guid_any_project(rows, project_id, guid) ==
  LET found == { r \in rows : r.guid = guid }
  IN  IF found = {} THEN <<>>
      ELSE << CHOOSE r \in found : \A q \in found : r.path <= q.path >>

\* SELECT ... FROM assets WHERE project_id = ?1 AND unity_guid = ?2;
\* query_row returns the first row, <<>> stands for None.  The rows come in
\* rowid order, which is the order the first walk inserted them in: the
\* order of their paths
get_asset_by_guid(rows, project_id, guid) ==
  LET found == { r \in rows : r.project_id = project_id /\ r.guid = guid }
  IN  IF found = {} THEN <<>>
      ELSE << CHOOSE r \in found : \A q \in found : r.path <= q.path >>

\* UPDATE projects SET last_scan_time = now, file_count = ?, updated_at = now
update_project_scan_time(p, file_count, now) ==
  [p EXCEPT !.last_scan_time = <<now>>, !.file_count = file_count,
            !.updated_at = now]

\* SELECT ... WHERE project_id = ?1 AND asset_type IN ('material','prefab',
\* 'scene','scriptable_object'); the rows are taken in the order of their
\* paths
get_parseable_assets(rows, project_id) ==
  LET in_scope == { r \in rows : r.project_id = project_id
                                 /\ r.kind \in ParseableKinds }
      paths == SortedSeq({ r.path : r \in in_scope })
  IN  [n \in 1..Len(paths) |-> CHOOSE r \in in_scope : r.path = paths[n]]

(***************************************************************************)
(* The GUID resolver (deps.rs).                                            *)
(***************************************************************************)
\* a table that files a prefab's texture under prefab_material
infer_relation_type_swapped(from_type, to_type) ==
  CASE from_type = "material" /\ to_type = "texture" -> "material_texture"
    [] from_type = "prefab" /\ to_type \in {"material", "texture"} -> "prefab_material"
    [] from_type = "scene" -> "scene_reference"
    [] OTHER -> "reference"

infer_relation_type(from_type, to_type) ==
  CASE from_type = "material" /\ to_type = "texture" -> "material_texture"
    [] from_type = "material" /\ to_type = "shader" -> "material_shader"
    [] from_type = "prefab" /\ to_type = "material" -> "prefab_material"
    [] from_type = "prefab" /\ to_type = "model" -> "prefab_model"
    [] from_type = "prefab" /\ to_type = "prefab" -> "prefab_prefab"
    [] from_type = "prefab" /\ to_type = "texture" -> "prefab_texture"
    [] from_type = "scene" /\ to_type = "prefab" -> "scene_prefab"
    [] from_type = "scene" /\ to_type = "material" -> "scene_material"
    [] from_type = "scene" /\ to_type \notin {"prefab", "material"} -> "scene_reference"
    [] OTHER -> "reference"

\* the row resolve_dependencies_for_asset builds for GUID g found in the
\* text of asset a, with target row t (<<>> when no asset carries g);
\* the fresh uuid of the row is <<n, a.path, g>>: scan n resolves a once
NewDependency(n, a, g, t, now) ==
  [id |-> <<n, a.path, g>>,
   from_asset_id |-> a.id,
   to_asset_id |-> IF t = <<>> THEN <<>> ELSE t[1].id,
   to_guid |-> g,
   relation_type |-> infer_relation_type(a.kind,
                        IF t = <<>> THEN "unknown" ELSE t[1].kind),
   confidence |-> "high",
   created_at |-> now]

\* extract_guids: the captures of the GUID pattern, collected in a HashSet
extract_guids(content) == { content[i] : i \in 1..Len(content) }

\* resolve_dependencies_for_asset: the rows it returns for asset row a
\* against the asset table rows
resolve_dependencies_for_asset(n, a, rows, now) ==
  IF a.kind \notin ParseableKinds THEN {}
  ELSE
    LET guids == { g \in extract_guids(FileAt(a.path).text) : g # a.guid }
    IN  { NewDependency(n, a, g, get_asset_by_guid(rows, a.project_id, g), now) :
            g \in guids }

\* an edge set as the claims compare it: without row id and timestamp
Edges(deps) ==
  { [from_asset_id |-> r.from_asset_id, to_asset_id |-> r.to_asset_id,
     to_guid |-> r.to_guid, relation_type |-> r.relation_type] : r \in deps }

(***************************************************************************)
(* Application state (state.rs).                                           *)
(***************************************************************************)
\* cancel_flag.store(true)
request_cancel == cancel_flag' = TRUE

\* a start_scan that leaves the cancel flag as it finds it
reset_cancel_skipped == cancel_flag' = cancel_flag

\* cancel_flag.store(false)
reset_cancel == cancel_flag' = FALSE

\* a load that never sees the flag set
is_cancelled_never == FALSE

\* cancel_flag.load(); the worker and the walks load the same flag through
\* their clones of the Arc
is_cancelled == cancel_flag

Catalog == [assets |-> assets, dependencies |-> dependencies, project |-> project]

\* scan-progress phase tags
PhaseTags == {"counting", "indexing", "dependencies", "complete", "cancelled"}
Terminal == {"complete", "cancelled"}

Last(s) == s[Len(s)]
EndedIn(w, tag) == Done(w) /\ Len(log[w]) > 0 /\ Last(log[w]) = tag

\* no call is being studied by itself
NoCall == [pc |-> "none"]

\* the project start_scan is called for
ProjectId == "p1"

\* get_or_create_project has run for the root (set_project_root), no scan yet
Init ==
  /\ tree \in Trees
  /\ cancel_flag = FALSE
  /\ scan_running = FALSE
  /\ assets = {}
  /\ dependencies = {}
  /\ project = [last_scan_time |-> <<>>, file_count |-> 0, updated_at |-> 0]
  /\ clock = 0
  /\ nscans = 0
  /\ wk = [w \in Workers |-> IdleWorker]
  /\ log = [w \in Workers |-> <<>>]
  /\ hist = [w \in Workers |-> IdleHist]
  /\ past = [cancelled |-> FALSE, complete |-> FALSE]
  /\ sb = NoCall
  /\ rs = NoCall
  /\ dt = NoCall
  /\ ex = NoCall /\ pj = NoCall /\ wl = NoCall /\ up = NoCall
  /\ pg = NoCall /\ th = NoCall /\ rt = NoCall /\ rc = NoCall

HasActive == \E u \in Workers : Active(u)

\* the wall clock (chrono::Utc::now().timestamp()) advances one second;
\* the model lets time pass between scans, not during one
Tick ==
  /\ clock < MaxClock
  /\ ~HasActive
  /\ clock' = clock + 1
  /\ UNCHANGED <<calls, tree, cancel_flag, scan_running, assets, dependencies,
                 project, nscans, wk, log, hist, past>>

(***************************************************************************)
(* Commands (commands.rs).                                                 *)
(***************************************************************************)
\* the history of the scans a reset of the cancel flag finds running
HistAtReset(v) ==
  IF Active(v) THEN [hist[v] EXCEPT !.held = FALSE, !.overlap = TRUE]
               ELSE hist[v]

\* start_scan: resets the cancel flag, looks the project up and dispatches
\* the worker, which begins by emitting the first counting event;
\* start_scan neither reads nor writes scan_running
StartScan ==
  /\ nscans < MaxScans
  /\ \E w \in Workers : ~Active(w)
  /\ LET w == CHOOSE t \in Workers : ~Active(t) IN
       /\ nscans' = nscans + 1
       /\ reset_cancel
       /\ wk' = [wk EXCEPT ![w] = [IdleWorker EXCEPT !.pc = "counting",
                                                    !.scan = nscans + 1]]
       /\ log' = [log EXCEPT ![w] = <<"counting">>]
       /\ hist' = [v \in Workers |->
                     IF v = w
                       THEN [IdleHist EXCEPT
                               !.prevCancelled = past.cancelled,
                               !.prevComplete = past.complete /\ ~HasActive,
                               !.overlap = HasActive,
                               !.catStart = IF past.complete /\ ~HasActive
                                              THEN Catalog ELSE NoCatalog]
                       ELSE HistAtReset(v)]
  /\ UNCHANGED <<calls, tree, scan_running, assets, dependencies, project, clock,
                 past>>

\* cancel_operation
RequestCancel ==
  /\ request_cancel
  /\ hist' = [v \in Workers |->
                IF Active(v)
                  THEN [hist[v] EXCEPT !.held = TRUE, !.requested = TRUE]
                  ELSE hist[v]]
  /\ UNCHANGED <<calls, tree, scan_running, assets, dependencies, project, clock,
                 nscans, wk, log, past>>

(***************************************************************************)
(* The worker of scan w: the closure start_scan hands to spawn_blocking.   *)
(***************************************************************************)
Emit(w, entries) == log' = [log EXCEPT ![w] = log[w] \o entries]

\* the worker returns: its locals are gone
\* a worker that goes on after its terminal event
Return_fallthrough(w) == wk' = [wk EXCEPT ![w].pc = "index_check"]
Return(w) == wk' = [wk EXCEPT ![w] = [IdleWorker EXCEPT !.pc = "done"]]
\* the scan of w ends with event tag, leaving catalog cat; the history keeps
\* the catalogs before and after a complete scan that ran alone right after
\* a complete scan that ran alone
Finish(w, tag, cat) ==
  /\ hist' = [hist EXCEPT
       ![w].catEnd = IF hist[w].prevComplete /\ ~hist[w].overlap /\ tag = "complete"
                       THEN cat ELSE NoCatalog,
       ![w].catStart = IF hist[w].prevComplete /\ ~hist[w].overlap /\ tag = "complete"
                       THEN hist[w].catStart ELSE NoCatalog,
       ![w].prevEdges = {}, ![w].freshEdges = {}]
  /\ past' = [cancelled |-> past.cancelled \/ tag = "cancelled",
              complete |-> tag = "complete" /\ ~hist[w].overlap]

\* count_scannable_files, one iteration of the walk
CountEntry(w) ==
  /\ wk[w].pc = "counting"
  /\ wk[w].i < Len(tree)
  /\ IF is_cancelled
       THEN \* return Ok(count)
            /\ wk' = [wk EXCEPT ![w].pc = "count_check",
                                ![w].total_files = wk[w].count]
            /\ hist' = [hist EXCEPT ![w].sawCount = TRUE,
                                    ![w].logAtSaw = Len(log[w])]
            /\ UNCHANGED log
       ELSE LET p == tree[wk[w].i + 1]
                c == IF Scannable(p) THEN wk[w].count + 1 ELSE wk[w].count
            IN  /\ wk' = [wk EXCEPT ![w].i = wk[w].i + 1, ![w].count = c]
                /\ IF Scannable(p) /\ c % ProgressEvery = 0
                     THEN Emit(w, <<"counting">>)
                     ELSE UNCHANGED log
                /\ UNCHANGED hist
  /\ UNCHANGED <<calls, tree, cancel_flag, scan_running, assets, dependencies,
                 project, clock, nscans, past>>

\* the end of the counting walk (the last progress report) and the check
\* "cancelled during counting"; then the indexing event and the start of
\* scan_files_batch
CountCheck(w) ==
  /\ \/ wk[w].pc = "count_check"
     \/ wk[w].pc = "counting" /\ wk[w].i = Len(tree)
  /\ LET progress == IF wk[w].pc = "counting" THEN <<"counting">> ELSE <<>>
         total == IF wk[w].pc = "counting" THEN wk[w].count ELSE wk[w].total_files
     IN  IF is_cancelled
           THEN /\ Return(w)
                /\ Emit(w, progress \o <<"cancelled">>)
                /\ Finish(w, "cancelled", Catalog)
           ELSE /\ wk' = [wk EXCEPT ![w].pc = "indexing",
                                    ![w].total_files = total,
                                    ![w].i = 0, ![w].now = clock]
                /\ Emit(w, progress \o <<"indexing">>)
                /\ UNCHANGED <<hist, past>>
  /\ UNCHANGED <<calls, tree, cancel_flag, scan_running, assets, dependencies,
                 project, clock, nscans>>

\* the Asset record scan_files_batch builds for file p; start_scan passes
\* no map of existing assets, so the id is a fresh uuid
NewAsset(n, p, now) ==
  [id |-> <<n, p>>, project_id |-> ProjectId, path |-> p, ext |-> FileAt(p).ext,
   kind |-> classify_file(FileAt(p).ext), guid |-> FileAt(p).guid,
   thumbnail_path |-> NoneV, created_at |-> now, updated_at |-> now]

\* scan_files_batch, one iteration of the walk; a full batch goes to the
\* callback
IndexEntry(w) ==
  /\ wk[w].pc = "indexing"
  /\ wk[w].i < Len(tree)
  /\ IF is_cancelled
       THEN \* return Ok((total_count, stats)); the open batch is dropped
            /\ wk' = [wk EXCEPT ![w].pc = "index_check", ![w].batch = <<>>]
            /\ hist' = [hist EXCEPT ![w].sawIndex = TRUE,
                                    ![w].logAtSaw = Len(log[w])]
       ELSE LET p == tree[wk[w].i + 1]
                b == Append(wk[w].batch, NewAsset(wk[w].scan, p, wk[w].now))
            IN  /\ IF ~Scannable(p)
                     THEN wk' = [wk EXCEPT ![w].i = wk[w].i + 1]
                     ELSE wk' = [wk EXCEPT
                            ![w].i = wk[w].i + 1, ![w].batch = b,
                            ![w].total_count = wk[w].total_count + 1,
                            ![w].pc = IF Len(b) >= BatchSize THEN "upserting"
                                                            ELSE "indexing",
                            ![w].k = 0]
                /\ UNCHANGED hist
  /\ UNCHANGED <<calls, tree, cancel_flag, scan_running, assets, dependencies,
                 project, clock, nscans, log, past>>

\* the worker is in the callback of a full batch, or the walk is over with
\* a batch open ("send remaining batch")
InFullBatch(w) == wk[w].pc = "upserting"
InLastBatch(w) ==
  \/ wk[w].pc = "upserting_last"
  \/ wk[w].pc = "indexing" /\ wk[w].i = Len(tree) /\ wk[w].batch # <<>>

\* Indexer::upsert_batch, one iteration: upsert_asset takes a connection of
\* its own from the pool, not the one upsert_batch began its transaction
\* on, so the row is committed by itself.  After the last row upsert_batch
\* returns, the callback emits the indexing event and returns !cancel_flag;
\* scan_files_batch returns on false, and after the remaining batch
UpsertRow(w) ==
  /\ InFullBatch(w) \/ InLastBatch(w)
  /\ assets' = upsert_asset(assets, wk[w].batch[wk[w].k + 1])
  /\ IF wk[w].k + 1 < Len(wk[w].batch)
       THEN /\ wk' = [wk EXCEPT ![w].k = wk[w].k + 1,
                       ![w].pc = IF InFullBatch(w) THEN "upserting"
                                                   ELSE "upserting_last"]
            /\ Emit(w, <<"upsert_asset">>)
            /\ UNCHANGED hist
       ELSE /\ Emit(w, <<"upsert_asset", "indexing">>)
            /\ IF InLastBatch(w)
                 THEN /\ wk' = [wk EXCEPT ![w].pc = "index_check",
                                          ![w].batch = <<>>, ![w].k = 0]
                      /\ UNCHANGED hist
                 ELSE IF is_cancelled
                   THEN /\ wk' = [wk EXCEPT ![w].pc = "index_check",
                                            ![w].batch = <<>>, ![w].k = 0]
                        /\ hist' = [hist EXCEPT ![w].sawIndex = TRUE,
                                                ![w].logAtSaw = Len(log[w]) + 2]
                   ELSE /\ wk' = [wk EXCEPT ![w].pc = "indexing",
                                            ![w].batch = <<>>, ![w].k = 0]
                        /\ UNCHANGED hist
  /\ UNCHANGED <<calls, tree, cancel_flag, scan_running, dependencies, project,
                 clock, nscans, past>>

\* the check "cancelled during indexing"; then the dependencies event and
\* the start of the resolve pass, which reads the assets in scope
IndexCheck(w) ==
  /\ \/ wk[w].pc = "index_check"
     \/ wk[w].pc = "indexing" /\ wk[w].i = Len(tree) /\ wk[w].batch = <<>>
  /\ IF is_cancelled
       THEN /\ Return(w)
            /\ Emit(w, <<"cancelled">>)
            /\ Finish(w, "cancelled", Catalog)
       ELSE /\ wk' = [wk EXCEPT ![w].pc = "deps",
                                ![w].file_count = wk[w].total_count,
                                ![w].depList = get_parseable_assets(assets, ProjectId),
                                ![w].d = 0]
            /\ Emit(w, <<"dependencies">>)
            /\ UNCHANGED <<hist, past>>
  /\ UNCHANGED <<calls, tree, cancel_flag, scan_running, assets, dependencies,
                 project, clock, nscans, past>>

\* the resolve pass finds the cancel flag set before its next asset and
\* returns (resolve_all_for_project_with_progress, which start_scan hands
\* the flag to)
DepCancel(w) ==
  /\ wk[w].pc = "deps"
  /\ wk[w].d < Len(wk[w].depList)
  /\ is_cancelled
  /\ wk' = [wk EXCEPT ![w].pc = "dep_check"]
  /\ UNCHANGED <<calls, tree, cancel_flag, scan_running, assets, dependencies,
                 project, clock, nscans, log, hist, past>>

\* the resolve pass, one asset: delete_dependencies_for_asset, then
\* resolve_dependencies_for_asset; the rows it returns are inserted one by
\* one (DepInsert); with no row to insert, the progress report follows
DepNext(w) ==
  /\ wk[w].pc = "deps"
  /\ wk[w].d < Len(wk[w].depList)
  /\ ~is_cancelled
  /\ LET a == wk[w].depList[wk[w].d + 1]
         fresh == resolve_dependencies_for_asset(wk[w].scan, a, assets, clock)
     IN
       /\ dependencies' = delete_dependencies_for_asset(dependencies, a.id)
       /\ hist' = [hist EXCEPT
            ![w].prevEdges = IF fresh = {} THEN {}
                ELSE Edges(get_dependencies(dependencies, a.id)),
            ![w].freshEdges = Edges(fresh)]
       /\ IF fresh = {}
            THEN /\ wk' = [wk EXCEPT ![w].d = wk[w].d + 1]
                 /\ Emit(w, <<"delete_dependencies", "dependencies">>)
            ELSE /\ wk' = [wk EXCEPT ![w].pc = "dep_insert",
                                     ![w].pending = fresh]
                 /\ Emit(w, <<"delete_dependencies">>)
  /\ UNCHANGED <<calls, tree, cancel_flag, scan_running, assets, project, clock,
                 nscans, past>>

\* the resolve pass, one insert_dependency; after the last row of the
\* asset, the progress report
DepInsert(w) ==
  /\ wk[w].pc = "dep_insert"
  /\ \E dep \in wk[w].pending :
       LET rest == wk[w].pending \ {dep} IN
       /\ dependencies' = insert_dependency(dependencies, dep)
       /\ IF rest = {}
            THEN /\ wk' = [wk EXCEPT ![w].pc = "deps", ![w].pending = {},
                                     ![w].d = wk[w].d + 1]
                 /\ Emit(w, <<"insert_dependency", "dependencies">>)
                 /\ hist' = [hist EXCEPT ![w].prevEdges = {},
                                         ![w].freshEdges = {}]
            ELSE /\ wk' = [wk EXCEPT ![w].pending = rest]
                 /\ Emit(w, <<"insert_dependency">>)
                 /\ UNCHANGED <<hist, past>>
  /\ UNCHANGED <<calls, tree, cancel_flag, scan_running, assets, project, clock,
                 nscans, past>>

\* a worker that emits complete without calling update_project_scan_time
DepCheck_no_update(w) ==
  /\ \/ wk[w].pc = "dep_check"
     \/ wk[w].pc = "deps" /\ wk[w].d = Len(wk[w].depList)
  /\ Return(w)
  /\ UNCHANGED project
  /\ IF is_cancelled
       THEN /\ Emit(w, <<"cancelled">>)
            /\ Finish(w, "cancelled", Catalog)
       ELSE /\ Emit(w, <<"complete">>)
            /\ Finish(w, "complete", Catalog)
  /\ UNCHANGED <<calls, tree, cancel_flag, scan_running, assets, dependencies,
                 clock, nscans>>

\* the check "cancelled during dependencies"; then update_project_scan_time
\* and the complete event
DepCheck(w) ==
  /\ \/ wk[w].pc = "dep_check"
     \/ wk[w].pc = "deps" /\ wk[w].d = Len(wk[w].depList)
  /\ Return(w)
  /\ IF is_cancelled
       THEN /\ Emit(w, <<"cancelled">>)
            /\ Finish(w, "cancelled", Catalog)
            /\ UNCHANGED project
       ELSE /\ project' = update_project_scan_time(project, wk[w].file_count, clock)
            /\ Emit(w, <<"update_project_scan_time", "complete">>)
            /\ Finish(w, "complete", [Catalog EXCEPT !.project = project'])
  /\ UNCHANGED <<calls, tree, cancel_flag, scan_running, assets, dependencies,
                 clock, nscans>>

Worker(w) ==
  \/ CountEntry(w)
  \/ CountCheck(w)
  \/ IndexEntry(w)
  \/ UpsertRow(w)
  \/ IndexCheck(w)
  \/ DepCancel(w)
  \/ DepNext(w)
  \/ DepInsert(w)
  \/ DepCheck(w)

Next ==
  \/ Tick
  \/ StartScan
  \/ RequestCancel
  \/ \E w \in Workers : Worker(w)

Spec == Init /\ [][Next]_vars

TypeOK ==
  /\ cancel_flag \in BOOLEAN
  /\ scan_running \in BOOLEAN
  /\ nscans \in 0..MaxScans
  /\ \A w \in Workers : wk[w].pc \in {"idle", "counting", "count_check",
        "indexing", "upserting", "upserting_last", "index_check", "deps",
        "dep_insert", "dep_check", "done"}

(***************************************************************************)
(* What a scan did, read off its log.                                      *)
(***************************************************************************)
Range(s) == { s[i] : i \in 1..Len(s) }
IsPhaseTag(e) == e \in PhaseTags
Events(w) == SelectSeq(log[w], IsPhaseTag)
Writes == {"upsert_asset", "delete_dependencies", "insert_dependency",
           "update_project_scan_time"}
Positions(s, e) == { i \in 1..Len(s) : s[i] = e }
Rank(tag) ==
  CASE tag = "counting" -> 1
    [] tag = "indexing" -> 2
    [] tag = "dependencies" -> 3
    [] OTHER -> 4
RanAllPhases(w) == {"counting", "indexing", "dependencies"} \subseteq Range(log[w])

\* C1: at most one scan job runs at a time: while a scan's worker has not
\* reached complete or cancelled, start_scan dispatches no second worker.
C1_OneScanAtATime == Cardinality({ w \in Workers : Active(w) }) <= 1

\* C2: a scan whose cancel request stands (set after the scan's start_scan
\* reset the flag, not reset since) when its worker makes its last cancel
\* check ends with the cancelled event, emits no complete and does not call
\* update_project_scan_time.
C2_CancelHeld ==
  \A w \in Workers :
    (Done(w) /\ hist[w].held) =>
      /\ Last(log[w]) = "cancelled"
      /\ "complete" \notin Range(log[w])
      /\ "update_project_scan_time" \notin Range(log[w])

\* a cancel request that arrived in the dependencies phase and stood until
\* the last check
C2_Witness ==
  \E w \in Workers :
    /\ Done(w) /\ hist[w].held
    /\ "insert_dependency" \in Range(log[w])

\* C3: the scan-progress events of a scan run counting, indexing,
\* dependencies in this order without going back, then exactly one terminal
\* event (complete or cancelled), which is the last thing the worker emits
\* or writes; complete comes only after all three phases.
C3_PhaseOrder ==
  \A w \in Workers :
    LET ev == Events(w) IN
    /\ \A i \in 1..(Len(ev) - 1) : Rank(ev[i]) <= Rank(ev[i + 1])
    /\ \A i \in 1..(Len(log[w]) - 1) : log[w][i] \notin Terminal
    /\ Done(w) => Last(log[w]) \in Terminal
    /\ Active(w) => Last(log[w]) \notin Terminal
    /\ ev # <<>> => ev[1] = "counting"
    /\ "dependencies" \in Range(ev) => "indexing" \in Range(ev)
    /\ "complete" \in Range(ev) => RanAllPhases(w)

\* a scan that ended in complete after several events of one phase
C3_Witness ==
  \E w \in Workers :
    /\ EndedIn(w, "complete")
    /\ Cardinality(Positions(log[w], "dependencies")) >= 2
    /\ "upsert_asset" \in Range(log[w])

\* C4: when the walk of the indexing phase observes a cancel, the scan
\* upserts no further batch and does not call update_project_scan_time, so
\* the project keeps its last_scan_time and file_count.
C4_CancelDuringIndexing ==
  \A w \in Workers :
    (Done(w) /\ hist[w].sawIndex) =>
      /\ \A i \in Positions(log[w], "upsert_asset") : i <= hist[w].logAtSaw
      /\ "update_project_scan_time" \notin Range(log[w])

\* C5: when the walk of the counting phase observes a cancel, the worker
\* emits the cancelled event and the scan writes no catalog row.
C5_CancelDuringCounting ==
  \A w \in Workers :
    (Done(w) /\ hist[w].sawCount) =>
      /\ "cancelled" \in Range(log[w])
      /\ Range(log[w]) \cap Writes = {}

\* C6: a scan that emits complete has called update_project_scan_time
\* exactly once, after the last event of the dependencies phase and before
\* complete.
C6_ScanTimeOnce ==
  \A w \in Workers :
    "complete" \in Range(log[w]) =>
      /\ Cardinality(Positions(log[w], "update_project_scan_time")) = 1
      /\ \A u \in Positions(log[w], "update_project_scan_time") :
           /\ \A d \in Positions(log[w], "dependencies") : d < u
           /\ \A c \in Positions(log[w], "complete") : u < c

\* a complete scan whose dependencies phase wrote edges
C6_Witness ==
  \E w \in Workers :
    /\ EndedIn(w, "complete")
    /\ "insert_dependency" \in Range(log[w])
    /\ "update_project_scan_time" \in Range(log[w])

\* C7: a scan started after an earlier scan ended in cancelled, with no
\* cancel requested while it runs, goes through all three phases and ends
\* in complete.
C7_FreshStart ==
  \A w \in Workers :
    (Done(w) /\ hist[w].prevCancelled /\ ~hist[w].requested) =>
      /\ Last(log[w]) = "complete"
      /\ RanAllPhases(w)

\* the scan after a cancelled one has ended, and no cancel was requested
C7_Witness ==
  \E w \in Workers :
    /\ Done(w) /\ hist[w].prevCancelled /\ ~hist[w].requested
    /\ ~hist[w].overlap

\* the in-scope asset whose edges worker w is rebuilding
Rebuilding(w) == wk[w].depList[wk[w].d + 1]

\* C8: whenever a reader can look, the outgoing edges of the asset a scan
\* running alone is rebuilding are the complete previous set or the
\* complete fresh set.
C8_RebuildAtomic ==
  \A w \in Workers :
    (wk[w].pc = "dep_insert" /\ ~hist[w].overlap) =>
      Edges(get_dependencies(dependencies, Rebuilding(w).id))
        \in {hist[w].prevEdges, hist[w].freshEdges}

\* the rows of the batch in upsert_batch that the catalog already shows
\* as upserted
BatchVisible(w) ==
  { i \in 1..Len(wk[w].batch) : upsert_asset(assets, wk[w].batch[i]) = assets }

\* C9: while a scan running alone is inside upsert_batch, a reader sees
\* all rows of the batch or none.
C9_BatchAtomic ==
  \A w \in Workers :
    (wk[w].pc \in {"upserting", "upserting_last"} /\ ~hist[w].overlap) =>
      BatchVisible(w) \in { {}, 1..Len(wk[w].batch) }

\* catalogs equal but for the scan time of the project row
SameButScanTime(c1, c2) ==
  /\ c1.assets = c2.assets
  /\ c1.dependencies = c2.dependencies
  /\ c1.project.file_count = c2.project.file_count

\* C10: a complete scan that runs alone right after a complete scan leaves
\* the asset rows, the dependency rows and the project's file_count as it
\* found them.
C10_RescanIdentical ==
  \A w \in Workers :
    (Done(w) /\ hist[w].catEnd # NoCatalog) =>
      SameButScanTime(hist[w].catStart, hist[w].catEnd)

\* C33: a cancel request issued while a scan's worker runs, before the
\* worker's last cancel check, is never lost: under no interleaving of
\* cancel_operation and start_scan calls does that worker go on to emit
\* complete.
C33_CancelNeverLost ==
  \A w \in Workers :
    hist[w].requested => "complete" \notin Range(log[w])

(***************************************************************************)
(* The resolve pass by itself (deps.rs, resolve_all_for_project), run      *)
(* twice on a catalog that holds assets of two projects.  Worker t1 runs   *)
(* the pass for ProjectId with the steps DepNext and DepInsert.            *)
(***************************************************************************)
\* number of files the catalog of the resolve pass can hold
ResolveFiles == 6

OtherProject == "p2"

\* the asset row an earlier scan of project proj left for file p
CatalogRow(p, proj) == [NewAsset(0, p, 0) EXCEPT !.project_id = proj]

\* the edges as the claims count them: a bag of
\* (from_asset_id, to_guid, relation_type)
EdgeKey(r) == <<r.from_asset_id, r.to_guid, r.relation_type>>
EdgeBag(deps) ==
  [t \in { EdgeKey(r) : r \in deps } |->
     Cardinality({ r \in deps : EdgeKey(r) = t })]

InitResolve ==
  /\ \E owner \in [1..ResolveFiles -> {ProjectId, OtherProject, NoneV}] :
       assets = { CatalogRow(p, owner[p]) :
                    p \in { q \in 1..ResolveFiles : owner[q] # NoneV } }
  /\ tree = <<>>
  /\ cancel_flag = FALSE
  /\ scan_running = FALSE
  /\ dependencies = {}
  /\ project = [last_scan_time |-> <<>>, file_count |-> 0, updated_at |-> 0]
  /\ clock = 0
  /\ nscans = 1
  /\ wk = [w \in Workers |->
             IF w = "t1"
               THEN [IdleWorker EXCEPT !.pc = "deps", !.scan = 1,
                       !.depList = get_parseable_assets(assets, ProjectId)]
               ELSE IdleWorker]
  /\ log = [w \in Workers |-> <<>>]
  /\ hist = [w \in Workers |-> IdleHist]
  /\ past = [cancelled |-> FALSE, complete |-> FALSE]
  /\ sb = NoCall
  /\ rs = [pc |-> "pass1", first |-> <<>>]
  /\ dt = NoCall
  /\ ex = NoCall /\ pj = NoCall /\ wl = NoCall /\ up = NoCall
  /\ pg = NoCall /\ th = NoCall /\ rt = NoCall /\ rc = NoCall

\* resolve_all_for_project has returned
PassOver == wk["t1"].pc = "deps" /\ wk["t1"].d = Len(wk["t1"].depList)

\* the first pass has returned: resolve_all_for_project is called again
ResolveAgain ==
  /\ rs.pc = "pass1"
  /\ PassOver
  /\ rs' = [pc |-> "pass2", first |-> EdgeBag(dependencies)]
  /\ wk' = [wk EXCEPT !["t1"].scan = 2, !["t1"].d = 0,
                      !["t1"].depList = get_parseable_assets(assets, ProjectId)]
  /\ UNCHANGED <<later, sb, dt, tree, cancel_flag, scan_running, assets,
                 dependencies, project, clock, nscans, log, hist, past>>

\* the second pass has returned
ResolveEnd ==
  /\ rs.pc = "pass2"
  /\ PassOver
  /\ rs' = [rs EXCEPT !.pc = "done"]
  /\ wk' = [wk EXCEPT !["t1"].pc = "done"]
  /\ UNCHANGED <<later, sb, dt, tree, cancel_flag, scan_running, assets,
                 dependencies, project, clock, nscans, log, hist, past>>

\* the worker that runs the passes
Resolver == {"t1"}

NextResolve ==
  \/ \E w \in Resolver : DepNext(w) \/ DepInsert(w)
  \/ ResolveAgain
  \/ ResolveEnd

SpecResolve == InitResolve /\ [][NextResolve]_vars

\* the assets in scope of the pass and the GUIDs in the text of one
InScope == { a \in assets : a.project_id = ProjectId /\ a.kind \in ParseableKinds }
GuidsOf(a) == extract_guids(FileAt(a.path).text)

\* the relation-type table of the resolver's contract
RelationTable(src, tgt) ==
  CASE src = "material" /\ tgt = "texture" -> "material_texture"
    [] src = "material" /\ tgt = "shader" -> "material_shader"
    [] src = "prefab" /\ tgt = "material" -> "prefab_material"
    [] src = "prefab" /\ tgt = "model" -> "prefab_model"
    [] src = "prefab" /\ tgt = "prefab" -> "prefab_prefab"
    [] src = "prefab" /\ tgt = "texture" -> "prefab_texture"
    [] src = "scene" /\ tgt = "prefab" -> "scene_prefab"
    [] src = "scene" /\ tgt = "material" -> "scene_material"
    [] src = "scene" -> "scene_reference"
    [] OTHER -> "reference"

\* the relations the table allows for an edge from a to GUID g: one per
\* asset of a's project that carries g, or the one for unknown
RelationsFor(a, g) ==
  LET carriers == { c \in assets : c.project_id = a.project_id /\ c.guid = g }
  IN  IF carriers = {} THEN { RelationTable(a.kind, "unknown") }
      ELSE { RelationTable(a.kind, c.kind) : c \in carriers }

\* exactly one row goes from a to GUID g, with a relation of the table
OneEdge(a, g) ==
  LET rows == { r \in dependencies : r.from_asset_id = a.id /\ r.to_guid = g }
  IN  /\ Cardinality(rows) = 1
      /\ \A r \in rows : r.relation_type \in RelationsFor(a, g)

\* C13 as stated: after resolve_all, every in-scope asset has exactly one
\* row for every GUID matched in its text, with the relation of the table.
C13_OneEdgePerGuid ==
  (PassOver \/ rs.pc = "done") =>
    \A a \in InScope : \A g \in GuidsOf(a) : OneEdge(a, g)

\* C13 amended: after resolve_all, every in-scope asset has exactly one row
\* for every GUID matched in its text other than its own GUID, however
\* often the GUID occurs, with the relation of the table; it has no row for
\* its own GUID.
C13_OneEdgePerForeignGuid ==
  (PassOver \/ rs.pc = "done") =>
    \A a \in InScope :
      /\ \A g \in GuidsOf(a) \ {a.guid} : OneEdge(a, g)
      /\ \A r \in dependencies : r.from_asset_id = a.id => r.to_guid # a.guid

\* both passes are over for an asset whose text names its own GUID and
\* names another GUID twice
C13_Witness ==
  /\ rs.pc = "done"
  /\ \E a \in InScope :
       /\ a.guid \in GuidsOf(a)
       /\ Len(FileAt(a.path).text) > Cardinality(GuidsOf(a))
       /\ \E r \in dependencies : r.from_asset_id = a.id

AssetById(id) == CHOOSE a \in assets : a.id = id

\* C14: the two ends of every resolved dependency row belong to one
\* project, and no row's target GUID is the GUID of its own source asset.
C14_SameProjectNoSelf ==
  \A r \in dependencies :
    /\ r.to_asset_id # <<>> =>
         AssetById(r.from_asset_id).project_id = AssetById(r.to_asset_id).project_id
    /\ r.to_guid # AssetById(r.from_asset_id).guid

\* a pass left a resolved edge, and an edge left dangling although an
\* asset of the other project carries its GUID
C14_Witness ==
  /\ PassOver
  /\ \E r \in dependencies : r.to_asset_id # <<>>
  /\ \E r \in dependencies :
       /\ r.to_asset_id = <<>>
       /\ \E c \in assets : c.project_id = OtherProject /\ c.guid = r.to_guid

\* every dependency row names in to_asset_id an asset row of the source's
\* project that carries the row's to_guid, and null only when there is none
EdgesResolved ==
  \A r \in dependencies :
    LET from == AssetById(r.from_asset_id)
        carriers == { c \in assets : c.project_id = from.project_id
                                        /\ c.guid = r.to_guid }
    IN  IF r.to_asset_id = <<>> THEN carriers = {}
        ELSE r.to_asset_id \in { c.id : c \in carriers }

\* C37: after a scan has ended in complete and no scan is running, every
\* dependency row's to_asset_id is the id of an asset of the same project
\* whose GUID equals the row's to_guid, and it is null only when no asset
\* of that project carries that GUID.
C37_EdgesResolved ==
  (~HasActive /\ \E w \in Workers : EndedIn(w, "complete")) => EdgesResolved

\* the same for the resolve pass run by itself
PassResolved == PassOver => EdgesResolved

\* the asset kinds classify_file yields
Kinds == {"texture", "model", "material", "prefab", "audio", "shader",
          "scene", "scriptable_object", "unknown"}

\* C15: infer_relation_type is the relation table on every pair of kinds;
\* every row the resolver leaves carries the table's relation for its
\* source and its resolved target, and a row for a dangling GUID has a null
\* target id, the GUID, and scene_reference for a scene source or
\* reference for any other.
C15_RelationTable ==
  /\ \A src \in Kinds, tgt \in Kinds :
       infer_relation_type(src, tgt) = RelationTable(src, tgt)
  /\ \A r \in dependencies :
       LET a == AssetById(r.from_asset_id) IN
       IF r.to_asset_id # <<>>
         THEN r.relation_type = RelationTable(a.kind, AssetById(r.to_asset_id).kind)
         ELSE /\ r.to_guid \in GuidsOf(a)
              /\ r.relation_type =
                   IF a.kind = "scene" THEN "scene_reference" ELSE "reference"
  /\ PassOver =>
       \A a \in InScope : \A g \in GuidsOf(a) \ {a.guid} :
         get_asset_by_guid(assets, a.project_id, g) = <<>> =>
           \E r \in dependencies :
             r.from_asset_id = a.id /\ r.to_guid = g /\ r.to_asset_id = <<>>

\* a pass left a scene_prefab edge, a prefab_material edge and a dangling
\* edge filed under reference
C15_Witness ==
  /\ PassOver
  /\ \E r \in dependencies : r.relation_type = "scene_prefab"
  /\ \E r \in dependencies : r.relation_type = "prefab_material"
  /\ \E r \in dependencies :
       r.to_asset_id = <<>> /\ r.relation_type = "reference"

\* C16: the second resolve pass leaves the bag of edges, counted by
\* (from_asset_id, to_guid, relation_type), that the first pass left.
C16_ResolveTwice ==
  rs.pc = "done" => EdgeBag(dependencies) = rs.first

\* both passes are over and left edges
C16_Witness ==
  /\ rs.pc = "done"
  /\ Cardinality(dependencies) >= 3

(***************************************************************************)
(* scan_files_batch by itself (scanner.rs), called with a map of existing  *)
(* assets or with None, a cancel flag that can be set at any time and a    *)
(* callback that answers as it likes.                                      *)
(***************************************************************************)
\* modified times and sizes the map of existing assets holds: 0..MaxStat
MaxStat == 1

\* fs::metadata of file p: its size and modified time now
FileStat(p) == [mtime |-> 1, size |-> 1]

\* the values handed in as existing_assets: <<>> for None, <<m>> for
\* Some(m), where m holds for some paths the entry (asset id,
\* modified_time, size_bytes)
ExistingEntries(p) ==
  { [id |-> <<0, p>>, mtime |-> m, size |-> z] : m \in 0..MaxStat, z \in 0..MaxStat }
ExistingMaps ==
  { <<>> } \cup
  UNION { { <<f>> : f \in { g \in [D -> UNION { ExistingEntries(p) : p \in D }] :
                              \A p \in D : g[p] \in ExistingEntries(p) } } :
          D \in SUBSET (1..MaxFiles) }

\* existing.get(&relative_path) is Some
InMap(existing, p) == existing # <<>> /\ p \in DOMAIN existing[1]

\* a test that looks at the modified time only
Unchanged_mtime_only(existing, p) ==
  /\ InMap(existing, p)
  /\ existing[1][p].mtime = FileStat(p).mtime

\* "file unchanged": the map holds the path with this mtime and this size
Unchanged(existing, p) ==
  /\ InMap(existing, p)
  /\ existing[1][p].mtime = FileStat(p).mtime
  /\ existing[1][p].size = FileStat(p).size

\* a tally that leaves skipped files out of total_files
Tally_skips_uncounted(st, unchanged) ==
  IF unchanged
    THEN [st EXCEPT !.unchanged_skipped = st.unchanged_skipped + 1]
    ELSE [st EXCEPT !.total_files = st.total_files + 1,
                    !.new_or_changed = st.new_or_changed + 1]

\* the ScanStats after one more classified file
Tally(st, unchanged) ==
  IF unchanged
    THEN [st EXCEPT !.total_files = st.total_files + 1,
                    !.unchanged_skipped = st.unchanged_skipped + 1]
    ELSE [st EXCEPT !.total_files = st.total_files + 1,
                    !.new_or_changed = st.new_or_changed + 1]

\* the id of the Asset built for p: the map's id when the path is in the
\* map, else a fresh uuid
AssetIdFor(existing, p) ==
  IF InMap(existing, p) THEN existing[1][p].id ELSE <<1, p>>

InitScanBatch ==
  /\ tree \in Trees
  /\ cancel_flag = FALSE
  /\ scan_running = FALSE
  /\ assets = {}
  /\ dependencies = {}
  /\ project = [last_scan_time |-> <<>>, file_count |-> 0, updated_at |-> 0]
  /\ clock = 0
  /\ nscans = 0
  /\ wk = [w \in Workers |-> IdleWorker]
  /\ log = [w \in Workers |-> <<>>]
  /\ hist = [w \in Workers |-> IdleHist]
  /\ past = [cancelled |-> FALSE, complete |-> FALSE]
  /\ \E existing \in ExistingMaps :
       sb = [pc |-> "walk", existing |-> existing, i |-> 0, batch |-> <<>>,
             total_count |-> 0, emitted |-> <<>>, sizes |-> <<>>,
             early |-> FALSE,
             stats |-> [total_files |-> 0, unchanged_skipped |-> 0,
                        new_or_changed |-> 0]]
  /\ rs = NoCall
  /\ dt = NoCall
  /\ ex = NoCall /\ pj = NoCall /\ wl = NoCall /\ up = NoCall
  /\ pg = NoCall /\ th = NoCall /\ rt = NoCall /\ rc = NoCall

\* scan_files_batch, one iteration of the walk
ScanBatchEntry ==
  /\ sb.pc = "walk"
  /\ sb.i < Len(tree)
  /\ LET p == tree[sb.i + 1] IN
     IF is_cancelled
       THEN sb' = [sb EXCEPT !.pc = "returned", !.early = TRUE, !.batch = <<>>]
     ELSE IF ~Scannable(p)
       THEN sb' = [sb EXCEPT !.i = sb.i + 1]
     ELSE IF Unchanged(sb.existing, p)
       THEN sb' = [sb EXCEPT !.i = sb.i + 1, !.stats = Tally(sb.stats, TRUE)]
     ELSE
       LET asset == [NewAsset(1, p, clock) EXCEPT !.id = AssetIdFor(sb.existing, p)]
           b == Append(sb.batch, asset)
       IN  IF Len(b) < BatchSize
             THEN sb' = [sb EXCEPT !.i = sb.i + 1, !.batch = b,
                                   !.total_count = sb.total_count + 1,
                                   !.stats = Tally(sb.stats, FALSE)]
             ELSE \E should_continue \in BOOLEAN :
                    sb' = [sb EXCEPT !.i = sb.i + 1, !.batch = <<>>,
                                     !.total_count = sb.total_count + 1,
                                     !.stats = Tally(sb.stats, FALSE),
                                     !.emitted = sb.emitted \o b,
                                     !.sizes = Append(sb.sizes, Len(b)),
                                     !.pc = IF should_continue THEN "walk"
                                                               ELSE "returned",
                                     !.early = ~should_continue]
  /\ UNCHANGED <<later, rs, dt, tree, cancel_flag, scan_running, assets, dependencies,
                 project, clock, nscans, wk, log, hist, past>>

\* the walk is over: the remaining batch goes to the callback
ScanBatchEnd ==
  /\ sb.pc = "walk"
  /\ sb.i = Len(tree)
  /\ sb' = [sb EXCEPT !.pc = "returned", !.batch = <<>>,
                      !.emitted = sb.emitted \o sb.batch,
                      !.sizes = IF sb.batch = <<>> THEN sb.sizes
                                ELSE Append(sb.sizes, Len(sb.batch))]
  /\ UNCHANGED <<later, rs, dt, tree, cancel_flag, scan_running, assets, dependencies,
                 project, clock, nscans, wk, log, hist, past>>

NextScanBatch ==
  \/ ScanBatchEntry
  \/ ScanBatchEnd
  \/ RequestCancel

SpecScanBatch == InitScanBatch /\ [][NextScanBatch]_vars

\* the classified files the walk has passed, and the Assets it has built
Walked == { tree[j] : j \in { k \in 1..sb.i : Scannable(tree[k]) } }
Built == { sb.batch[j] : j \in 1..Len(sb.batch) }
Emitted == { sb.emitted[j] : j \in 1..Len(sb.emitted) }

\* the map handed in holds path p with the file's mtime and size
SameStat(p) ==
  /\ InMap(sb.existing, p)
  /\ <<sb.existing[1][p].mtime, sb.existing[1][p].size>>
       = <<FileStat(p).mtime, FileStat(p).size>>

C12_StatsAddUp ==
  sb.pc # "none" =>
    sb.stats.total_files = sb.stats.unchanged_skipped + sb.stats.new_or_changed

\* the walk returned early after it skipped a file
C12_Witness ==
  /\ sb.pc = "returned" /\ sb.early
  /\ sb.stats.unchanged_skipped >= 1

\* ---------------------------------------------------------------------------
\* get_dependency_tree and export_bundle: the walk over the resolved edges.
\* Asset ids are 1..n here; the dependencies table is the sequence of its rows
\* in the order the query returns them (get_dependencies has no ORDER BY, and
\* the rows were inserted in the iteration order of a HashSet).
\* ---------------------------------------------------------------------------

MaxNodes == 3
MaxEdges == 3
MaxDepth == MaxNodes

\* to_asset_id of a row whose GUID resolved to no asset
NoAsset == 0

\* the asset the walk starts from
Root == 1

DepRow(from, to) == [from_asset_id |-> from, to_asset_id |-> to]

\* SELECT ... FROM dependencies WHERE from_asset_id = ?1, in result order
get_dependencies_rows(table, asset_id) ==
  SelectSeq(table, LAMBDA r : r.from_asset_id = asset_id)

\* a walk that never records an asset as visited
Visit_forgets(visited, asset_id) == visited

\* visited.insert(asset_id.to_string())
Visit(visited, asset_id) == visited \cup {asset_id}

NewWalk == [visited |-> {}, result |-> <<>>, calls |-> 0, expanded |-> <<>>]

RECURSIVE collect_dependencies(_, _, _, _, _)
RECURSIVE collect_for_deps(_, _, _, _, _)

\* collect_dependencies: `calls` counts its invocations and `expanded` lists
\* the assets whose rows it read, in order; visited and result are the
\* code's two accumulators
collect_dependencies(table, asset_id, depth, max_depth, st) ==
  LET entered == [st EXCEPT !.calls = @ + 1] IN
  IF depth >= max_depth \/ asset_id \in entered.visited
  THEN entered
  ELSE collect_for_deps(table, get_dependencies_rows(table, asset_id),
                        depth, max_depth,
                        [entered EXCEPT !.visited = Visit(@, asset_id),
                                        !.expanded = Append(@, asset_id)])

\* the `for dep in deps` loop of collect_dependencies
collect_for_deps(table, deps, depth, max_depth, st) ==
  IF deps = <<>> THEN st
  ELSE LET to_id == Head(deps).to_asset_id
           after ==
             IF to_id # NoAsset /\ to_id \notin st.visited
             THEN collect_dependencies(table, to_id, depth + 1, max_depth,
                    [st EXCEPT !.result = Append(@, to_id)])
             ELSE st
       IN collect_for_deps(table, Tail(deps), depth, max_depth, after)

get_dependency_tree(table, asset_id, max_depth) ==
  collect_dependencies(table, asset_id, 0, max_depth, NewWalk)

RECURSIVE export_assets(_, _)
\* export_bundle, the export loop: a path already exported is skipped
export_assets(assets_to_export, exported_files) ==
  IF assets_to_export = <<>> THEN exported_files
  ELSE export_assets(Tail(assets_to_export),
         IF Head(assets_to_export) \in Range(exported_files)
         THEN exported_files
         ELSE Append(exported_files, Head(assets_to_export)))

\* export_bundle: the root and its dependency tree, each file once
export_bundle(table, asset_id, max_depth) ==
  export_assets(<<asset_id>> \o get_dependency_tree(table, asset_id, max_depth).result,
                <<>>)

TreeNodes == 1..MaxNodes

\* the rows a table can hold: no row points at its own source (the resolver
\* drops self-references), a row may have no target asset
TreeRows ==
  { DepRow(i, j) : i \in TreeNodes, j \in TreeNodes \cup {NoAsset} } \
  { DepRow(i, i) : i \in TreeNodes }

\* every table of at most MaxEdges distinct rows, in every row order
TreeTables ==
  { t \in UNION { [1..k -> TreeRows] : k \in 0..MaxEdges } :
      \A a, b \in DOMAIN t : a # b => t[a] # t[b] }

InitTreeRest ==
  /\ tree = <<>>
  /\ cancel_flag = FALSE
  /\ scan_running = FALSE
  /\ assets = {}
  /\ dependencies = {}
  /\ project = [last_scan_time |-> <<>>, file_count |-> 0, updated_at |-> 0]
  /\ clock = 0
  /\ nscans = 0
  /\ wk = [w \in Workers |-> IdleWorker]
  /\ log = [w \in Workers |-> <<>>]
  /\ hist = [w \in Workers |-> IdleHist]
  /\ past = [cancelled |-> FALSE, complete |-> FALSE]
  /\ sb = NoCall
  /\ rs = NoCall
  /\ ex = NoCall /\ pj = NoCall /\ wl = NoCall /\ up = NoCall
  /\ pg = NoCall /\ th = NoCall /\ rt = NoCall /\ rc = NoCall

ReadyCall(table, max_depth) ==
  [pc |-> "ready", table |-> table, max_depth |-> max_depth,
   walk |-> NewWalk, deeper |-> <<>>, exported_files |-> <<>>]

InitTree ==
  /\ InitTreeRest
  /\ \E table \in TreeTables, max_depth \in 0..MaxDepth :
       dt = ReadyCall(table, max_depth)

\* get_dependency_tree(Root, max_depth)
TreeCall ==
  /\ dt.pc = "ready"
  /\ dt' = [dt EXCEPT !.pc = "walked",
                      !.walk = get_dependency_tree(dt.table, Root, dt.max_depth)]
  /\ UNCHANGED <<later, sb, rs, tree, cancel_flag, scan_running, assets, dependencies,
                 project, clock, nscans, wk, log, hist, past>>

\* the same call with the next deeper bound
TreeCallDeeper ==
  /\ dt.pc = "walked"
  /\ dt' = [dt EXCEPT !.pc = "deeper",
                      !.deeper = get_dependency_tree(dt.table, Root,
                                                     dt.max_depth + 1).result]
  /\ UNCHANGED <<later, sb, rs, tree, cancel_flag, scan_running, assets, dependencies,
                 project, clock, nscans, wk, log, hist, past>>

\* export_bundle(Root, max_depth)
ExportBundle ==
  /\ dt.pc = "deeper"
  /\ dt' = [dt EXCEPT !.pc = "exported",
                      !.exported_files = export_bundle(dt.table, Root, dt.max_depth)]
  /\ UNCHANGED <<later, sb, rs, tree, cancel_flag, scan_running, assets, dependencies,
                 project, clock, nscans, wk, log, hist, past>>

NextTree == TreeCall \/ TreeCallDeeper \/ ExportBundle

SpecTree == InitTree /\ [][NextTree]_vars

\* The same calls on longer chains: up to DeepNodes assets whose rows point
\* forward only, in ascending or descending row order.
DeepNodes == 6
DeepEdges == 6
DeepDepth == 4

DeepPairs(n) == { <<i, j>> \in (1..n) \X (1..n) : i < j }

PairCode(e) == e[1] * (DeepNodes + 1) + e[2]

RECURSIVE Ascending(_)
Ascending(E) ==
  IF E = {} THEN <<>>
  ELSE LET e == CHOOSE x \in E : \A y \in E : PairCode(x) <= PairCode(y)
       IN <<DepRow(e[1], e[2])>> \o Ascending(E \ {e})

Descending(E) ==
  LET s == Ascending(E)
  IN [i \in 1..Len(s) |-> s[Len(s) + 1 - i]]

DeepTables(n, max_rows) ==
  LET sets == { E \in SUBSET DeepPairs(n) : Cardinality(E) <= max_rows }
  IN { Ascending(E) : E \in sets } \cup { Descending(E) : E \in sets }

InitTreeDeep ==
  /\ InitTreeRest
  /\ \E table \in DeepTables(DeepNodes, DeepEdges), max_depth \in 0..DeepDepth :
       dt = ReadyCall(table, max_depth)

SpecTreeDeep == InitTreeDeep /\ [][NextTree]_vars

\* the assets other than `root` that at most d resolved edges lead to
RECURSIVE Within(_, _, _)
Within(table, S, d) ==
  IF d = 0 THEN S
  ELSE Within(table,
              S \cup { table[i].to_asset_id :
                         i \in { k \in DOMAIN table :
                                   /\ table[k].from_asset_id \in S
                                   /\ table[k].to_asset_id # NoAsset } },
              d - 1)

Reachable(table, root, d) == Within(table, {root}, d) \ {root}

NoRepeat(s) == \A i, j \in DOMAIN s : i # j => s[i] # s[j]

Count(s, x) == Cardinality({ i \in DOMAIN s : s[i] = x })

\* C17: get_dependency_tree(root, d) returns, as a set, exactly the assets
\* other than root that at most d resolved edges lead to from root, for every
\* table and row order; with d = 0 it returns nothing.
C17_ExactlyReachable ==
  dt.pc \in {"walked", "deeper", "exported"} =>
    /\ Range(dt.walk.result) = Reachable(dt.table, Root, dt.max_depth)
    /\ (dt.max_depth = 0 => dt.walk.result = <<>>)

\* C18: get_dependency_tree is monotone in the depth bound: every asset it
\* returns for max_depth is also returned for max_depth + 1.
C18_MonotoneInDepth ==
  dt.pc \in {"deeper", "exported"} =>
    Range(dt.walk.result) \subseteq Range(dt.deeper)

\* C19: the list get_dependency_tree returns holds no id twice and never the
\* root's id, for every table, diamonds and cycles included.
C19_NoRepeatNoRoot ==
  dt.pc \in {"walked", "deeper", "exported"} =>
    /\ NoRepeat(dt.walk.result)
    /\ Root \notin Range(dt.walk.result)

\* C20: get_dependency_tree and export_bundle return on every table, cycles
\* included, and the walk visits each asset a bounded number of times: it
\* reads the rows of an asset at most once, enters collect_dependencies at
\* most once per row besides the first call, and the export copies each file
\* at most once.
C20_BoundedWalk ==
  /\ dt.pc \in {"walked", "deeper", "exported"} =>
       /\ \A a \in TreeNodes : Count(dt.walk.expanded, a) <= 1
       /\ dt.walk.calls <= 1 + Len(dt.table)
  /\ dt.pc = "exported" =>
       /\ NoRepeat(dt.exported_files)
       /\ Range(dt.exported_files) = {Root} \cup Range(dt.walk.result)

\* both calls returned on a table whose rows lead from the root back to the
\* root, deep enough for the walk to come back to it
C20_Witness ==
  /\ dt.pc = "exported"
  /\ dt.max_depth >= 2
  /\ \E a \in TreeNodes \ {Root} :
       /\ \E i \in DOMAIN dt.table : dt.table[i] = DepRow(Root, a)
       /\ \E i \in DOMAIN dt.table : dt.table[i] = DepRow(a, Root)
       /\ a \in Range(dt.walk.expanded)

\* ---------------------------------------------------------------------------
\* export_bundle and export_file, step by step: the destination folder, the
\* source files that are missing, and the I/O calls that can fail.
\* ---------------------------------------------------------------------------

\* the scan and its catalog, untouched by the calls below
NoScan ==
  /\ tree = <<>>
  /\ cancel_flag = FALSE
  /\ scan_running = FALSE
  /\ assets = {}
  /\ dependencies = {}
  /\ project = [last_scan_time |-> <<>>, file_count |-> 0, updated_at |-> 0]
  /\ clock = 0
  /\ nscans = 0
  /\ wk = [w \in Workers |-> IdleWorker]
  /\ log = [w \in Workers |-> <<>>]
  /\ hist = [w \in Workers |-> IdleHist]
  /\ past = [cancelled |-> FALSE, complete |-> FALSE]

scan == <<tree, cancel_flag, scan_running, assets, dependencies, project,
          clock, nscans, wk, log, hist, past>>

\* asset.relative_path of the asset with this id: the assets of a closure
\* belong to one project, where the relative path is unique
RelPaths == <<"a.prefab", "b.mat", "c.png", "d.png", "e.png">>

RelPath(id) == RelPaths[id]

\* Result<ExportResult, AppError>
OkResult(success, exported_files, manifest_path, error) ==
  [kind |-> "Ok", success |-> success, exported_files |-> exported_files,
   manifest_path |-> manifest_path, error |-> error]

ErrResult(e) == [kind |-> "Err", error |-> e]

\* what an I/O call can do
IoOutcomes == {"ok", "io_error"}

NewExport(op, table, max_depth, missing) ==
  [pc |-> "start", op |-> op, table |-> table, max_depth |-> max_depth,
   missing |-> missing,
   assets_to_export |-> <<>>, i |-> 0,
   exported_files |-> <<>>, exported_paths |-> {},
   dependency_edges |-> <<>>,
   dest |-> <<>>,          \* main files copied into dest_folder, in order
   manifest |-> <<>>,      \* <<manifest>> once manifest.json is written
   failed |-> NoneV,       \* the I/O call that failed
   result |-> <<>>]        \* <<the value returned>>

InitExport ==
  /\ NoScan
  /\ sb = NoCall /\ rs = NoCall /\ dt = NoCall /\ pj = NoCall /\ wl = NoCall
  /\ up = NoCall
  /\ pg = NoCall /\ th = NoCall /\ rt = NoCall /\ rc = NoCall
  /\ \/ \E table \in TreeTables, max_depth \in 0..MaxDepth,
           missing \in SUBSET TreeNodes :
          ex = NewExport("bundle", table, max_depth, missing)
     \/ \E missing \in SUBSET TreeNodes :
          ex = NewExport("file", <<>>, 0, missing)

\* export_bundle up to the export loop: the walk and assets_to_export
BundleWalk ==
  /\ ex.pc = "start" /\ ex.op = "bundle"
  /\ ex' = [ex EXCEPT
       !.pc = "copy",
       !.assets_to_export =
          <<Root>> \o get_dependency_tree(ex.table, Root, ex.max_depth).result,
       !.i = 1]
  /\ UNCHANGED <<scan, more, sb, rs, dt, pj, wl, up>>

\* export_bundle, one iteration of `for export_asset in &assets_to_export`
BundleCopy ==
  /\ ex.pc = "copy" /\ ex.i <= Len(ex.assets_to_export)
  /\ LET export_asset == ex.assets_to_export[ex.i]
         path == RelPath(export_asset)
         next == [ex EXCEPT !.i = @ + 1]
     IN IF export_asset \in ex.missing \/ path \in ex.exported_paths
        THEN ex' = next
        ELSE \E mkdir \in IoOutcomes, copy \in IoOutcomes :
               IF mkdir = "io_error"
               THEN ex' = [ex EXCEPT !.pc = "returned",
                                     !.failed = "create_dir_all",
                                     !.result = <<ErrResult("Io")>>]
               ELSE IF copy = "io_error"
               THEN ex' = [ex EXCEPT !.pc = "returned",
                                     !.failed = "copy",
                                     !.result = <<ErrResult("Io")>>]
               ELSE ex' = [next EXCEPT
                             !.dest = Append(@, path),
                             !.exported_files = Append(@, path),
                             !.exported_paths = @ \cup {path}]
  /\ UNCHANGED <<scan, more, sb, rs, dt, pj, wl, up>>

RECURSIVE edges_of(_, _, _)
\* `for dep in deps` of the manifest's dependency graph
edges_of(from, deps, exported_paths) ==
  IF deps = <<>> THEN <<>>
  ELSE LET to_id == Head(deps).to_asset_id
           rest == edges_of(from, Tail(deps), exported_paths)
       IN IF to_id # NoAsset /\ RelPath(to_id) \in exported_paths
          THEN <<[from |-> RelPath(from), to |-> RelPath(to_id)]>> \o rest
          ELSE rest

RECURSIVE dependency_graph(_, _, _)
\* `for export_asset in &assets_to_export` of the manifest's dependency graph
dependency_graph(table, assets_to_export, exported_paths) ==
  IF assets_to_export = <<>> THEN <<>>
  ELSE edges_of(Head(assets_to_export),
                get_dependencies_rows(table, Head(assets_to_export)),
                exported_paths)
       \o dependency_graph(table, Tail(assets_to_export), exported_paths)

\* export_bundle: build dependency graph for manifest
BundleEdges ==
  /\ ex.pc = "copy" /\ ex.i > Len(ex.assets_to_export)
  /\ ex' = [ex EXCEPT
       !.pc = "manifest",
       !.dependency_edges =
          dependency_graph(ex.table, ex.assets_to_export, ex.exported_paths)]
  /\ UNCHANGED <<scan, more, sb, rs, dt, pj, wl, up>>

\* ExportManifest { .. }: assets and dependency_graph
ExportManifest(x) ==
  [root_asset |-> RelPath(Root),
   assets |-> [k \in 1..Len(SelectSeq(x.assets_to_export,
                       LAMBDA a : RelPath(a) \in x.exported_paths)) |->
                 RelPath(SelectSeq(x.assets_to_export,
                       LAMBDA a : RelPath(a) \in x.exported_paths)[k])],
   dependency_graph |-> x.dependency_edges]

\* export_bundle: write manifest.json and return
BundleManifest ==
  /\ ex.pc = "manifest"
  /\ \E write \in IoOutcomes :
       IF write = "io_error"
       THEN ex' = [ex EXCEPT !.pc = "returned", !.failed = "write",
                             !.result = <<ErrResult("Io")>>]
       ELSE ex' = [ex EXCEPT
              !.pc = "returned",
              !.manifest = <<ExportManifest(ex)>>,
              !.result = <<OkResult(TRUE, ex.exported_files,
                                    <<"manifest.json">>, <<>>)>>]
  /\ UNCHANGED <<scan, more, sb, rs, dt, pj, wl, up>>

\* export_file
ExportFile ==
  /\ ex.pc = "start" /\ ex.op = "file"
  /\ IF Root \in ex.missing
     THEN ex' = [ex EXCEPT !.pc = "returned",
                   !.result = <<OkResult(FALSE, <<>>, <<>>,
                                         <<"Source file not found">>)>>]
     ELSE \E mkdir \in IoOutcomes, copy \in IoOutcomes, meta \in IoOutcomes :
            IF mkdir = "io_error"
            THEN ex' = [ex EXCEPT !.pc = "returned",
                                  !.failed = "create_dir_all",
                                  !.result = <<ErrResult("Io")>>]
            ELSE IF copy = "io_error"
            THEN ex' = [ex EXCEPT !.pc = "returned", !.failed = "copy",
                                  !.result = <<ErrResult("Io")>>]
            ELSE IF meta = "io_error"
            THEN ex' = [ex EXCEPT !.pc = "returned", !.failed = "copy_meta",
                                  !.dest = <<RelPath(Root)>>,
                                  !.result = <<ErrResult("Io")>>]
            ELSE ex' = [ex EXCEPT !.pc = "returned",
                          !.dest = <<RelPath(Root)>>,
                          !.result = <<OkResult(TRUE, <<RelPath(Root)>>,
                                                <<>>, <<>>)>>]
  /\ UNCHANGED <<scan, more, sb, rs, dt, pj, wl, up>>

NextExport ==
  BundleWalk \/ BundleCopy \/ BundleEdges \/ BundleManifest \/ ExportFile

SpecExport == InitExport /\ [][NextExport]_vars

\* the relative paths the manifest lists as assets
ManifestPaths == Range(ex.manifest[1].assets)

\* C21: export_bundle copies each relative path at most once, and
\* exported_files and manifest.assets each list every exported relative path
\* exactly once.
C21_EachPathOnce ==
  /\ ex.op = "bundle" => NoRepeat(ex.dest)
  /\ (ex.op = "bundle" /\ ex.pc = "returned" /\ ex.manifest # <<>>) =>
       /\ NoRepeat(ex.result[1].exported_files)
       /\ Range(ex.result[1].exported_files) = Range(ex.dest)
       /\ NoRepeat(ex.manifest[1].assets)
       /\ ManifestPaths = Range(ex.dest)

\* C22: every edge of the manifest's dependency graph has its from path and
\* its to path among manifest.assets, also when an asset of the closure was
\* skipped because its source file is missing.
C22_EdgesAmongExported ==
  (ex.pc = "returned" /\ ex.manifest # <<>>) =>
    \A k \in DOMAIN ex.manifest[1].dependency_graph :
      /\ ex.manifest[1].dependency_graph[k].from \in ManifestPaths
      /\ ex.manifest[1].dependency_graph[k].to \in ManifestPaths

\* C23: when creating a directory, copying a main file or writing the manifest
\* fails with an I/O error, the export returns an ExportResult with
\* success = false and the error set, not an error of the operation, and the
\* files already copied stay where they are.
C23_IoErrorInResult ==
  (ex.pc = "returned" /\ ex.failed \in {"create_dir_all", "copy", "write"}) =>
    /\ ex.result[1].kind = "Ok"
    /\ ex.result[1].success = FALSE
    /\ ex.result[1].error # <<>>

\* ---------------------------------------------------------------------------
\* The scan worker when a catalog call fails.  The log entry "catalog_error"
\* is the tracing::error! line the worker writes for the failed call.
\* ---------------------------------------------------------------------------

\* indexer.upsert_batch(&batch) returns Err before its first row (no
\* connection, or BEGIN fails): the callback logs it, emits the indexing
\* event and returns !cancel_flag
UpsertBatchFails(w) ==
  /\ InFullBatch(w) \/ InLastBatch(w)
  /\ wk[w].k = 0
  /\ Emit(w, <<"catalog_error", "indexing">>)
  /\ IF InLastBatch(w)
       THEN /\ wk' = [wk EXCEPT ![w].pc = "index_check", ![w].batch = <<>>]
            /\ UNCHANGED hist
       ELSE IF is_cancelled
         THEN /\ wk' = [wk EXCEPT ![w].pc = "index_check", ![w].batch = <<>>]
              /\ hist' = [hist EXCEPT ![w].sawIndex = TRUE,
                                      ![w].logAtSaw = Len(log[w]) + 2]
         ELSE /\ wk' = [wk EXCEPT ![w].pc = "indexing", ![w].batch = <<>>]
              /\ UNCHANGED hist
  /\ UNCHANGED <<calls, tree, cancel_flag, scan_running, assets, dependencies,
                 project, clock, nscans, past>>

\* the resolve pass returns Err at its next asset
\* (delete_dependencies_for_asset(&asset.id)? fails): the worker logs it and
\* goes on to the check "cancelled during dependencies"
ResolveFails(w) ==
  /\ wk[w].pc = "deps"
  /\ wk[w].d < Len(wk[w].depList)
  /\ ~is_cancelled
  /\ wk' = [wk EXCEPT ![w].pc = "dep_check"]
  /\ Emit(w, <<"catalog_error">>)
  /\ UNCHANGED <<calls, tree, cancel_flag, scan_running, assets, dependencies,
                 project, clock, nscans, hist, past>>

\* update_project_scan_time returns Err: the worker logs it and emits
\* complete
ScanTimeFails(w) ==
  /\ \/ wk[w].pc = "dep_check"
     \/ wk[w].pc = "deps" /\ wk[w].d = Len(wk[w].depList)
  /\ ~is_cancelled
  /\ Return(w)
  /\ Emit(w, <<"catalog_error", "complete">>)
  /\ Finish(w, "complete", Catalog)
  /\ UNCHANGED <<calls, tree, cancel_flag, scan_running, assets, dependencies,
                 project, clock, nscans>>

NextScanErr ==
  \/ Next
  \/ \E w \in Workers : UpsertBatchFails(w) \/ ResolveFails(w) \/ ScanTimeFails(w)

SpecScanErr == Init /\ [][NextScanErr]_vars

\* C24: a catalog error is fatal to its scan: after a failed upsert of a
\* batch, resolve pass or update of the scan time, the worker writes nothing
\* more to the catalog, enters no later phase and emits no complete.
C24_CatalogErrorFatal ==
  \A w \in Workers :
    \A i \in Positions(log[w], "catalog_error") :
      \A j \in (i + 1)..Len(log[w]) :
        log[w][j] \notin Writes \cup {"dependencies", "complete"}

\* ---------------------------------------------------------------------------
\* Table assets under any sequence of upsert_asset calls, with the clock
\* advancing and thumbnails being recorded in between.
\* ---------------------------------------------------------------------------

MaxUpserts == 3
\* the relative paths upserted: m.mat and b.png
UpsertPaths == {1, 2}

\* the GUIDs a sidecar of the file can hold from one scan to the next
UpsertGuids == {NoneV, "ga"}

InitUpsert ==
  /\ NoScan
  /\ sb = NoCall /\ rs = NoCall /\ dt = NoCall /\ ex = NoCall
  /\ pj = NoCall /\ wl = NoCall
  /\ pg = NoCall /\ th = NoCall /\ rt = NoCall /\ rc = NoCall
  /\ up = [pc |-> "open", n |-> 0, asset |-> <<>>, before |-> {}]

\* upsert_asset(asset) for an Asset as scan_files_batch builds it: a fresh
\* id, created_at = updated_at = now, no thumbnail
UpsertAsset ==
  /\ up.n < MaxUpserts
  /\ \E proj \in {ProjectId, OtherProject}, p \in UpsertPaths,
        guid \in UpsertGuids :
       LET asset == [NewAsset(up.n + 1, p, clock) EXCEPT
                       !.project_id = proj, !.guid = guid]
       IN /\ assets' = upsert_asset(assets, asset)
          /\ up' = [pc |-> "upserted", n |-> up.n + 1, asset |-> <<asset>>,
                    before |-> assets]
  /\ UNCHANGED <<tree, cancel_flag, scan_running, dependencies, project, clock,
                 nscans, wk, log, hist, past, sb, rs, dt, ex, pj, wl,
                 more>>

\* the preview coordinator records a thumbnail for a row that has none
UpdateThumbnail ==
  /\ \E r \in assets :
       /\ r.thumbnail_path = NoneV
       /\ assets' = update_asset_thumbnail(assets, r.id, "thumb")
  /\ up' = [up EXCEPT !.pc = "open", !.asset = <<>>, !.before = {}]
  /\ UNCHANGED <<tree, cancel_flag, scan_running, dependencies, project, clock,
                 nscans, wk, log, hist, past, sb, rs, dt, ex, pj, wl,
                 more>>

\* time passes between two calls
UpsertTick ==
  /\ clock < MaxClock
  /\ clock' = clock + 1
  /\ up' = [up EXCEPT !.pc = "open", !.asset = <<>>, !.before = {}]
  /\ UNCHANGED <<tree, cancel_flag, scan_running, assets, dependencies, project,
                 nscans, wk, log, hist, past, sb, rs, dt, ex, pj, wl,
                 more>>

NextUpsert == UpsertAsset \/ UpdateThumbnail \/ UpsertTick

SpecUpsert == InitUpsert /\ [][NextUpsert]_vars

\* the rows of a table with the key of asset a
RowsAt(rows, a) == { r \in rows : SameKey(r, a) }

\* C25: the catalog holds at most one asset row per (project_id,
\* relative_path), and an upsert of an asset whose key exists keeps that
\* row's id and created_at and replaces its other columns; the other rows
\* stay as they were.
C25_OneRowPerKey ==
  /\ \A r1, r2 \in assets : SameKey(r1, r2) => r1 = r2
  /\ up.pc = "upserted" =>
       LET a == up.asset[1]
           old == RowsAt(up.before, a)
       IN /\ assets \ RowsAt(assets, a) = up.before \ old
          /\ old = {} => RowsAt(assets, a) = {a}
          /\ \A r \in old :
               RowsAt(assets, a) =
                 {[a EXCEPT !.id = r.id, !.created_at = r.created_at]}

\* an upsert met a row with its key that had another id, another created_at,
\* another GUID and a thumbnail, beside a row of the other project
C25_Witness ==
  /\ up.pc = "upserted"
  /\ \E r \in RowsAt(up.before, up.asset[1]) :
       /\ r.id # up.asset[1].id
       /\ r.created_at # up.asset[1].created_at
       /\ r.guid # up.asset[1].guid
       /\ r.thumbnail_path # NoneV
  /\ \E r \in assets : r.project_id # up.asset[1].project_id
                       /\ r.path = up.asset[1].path

\* ---------------------------------------------------------------------------
\* One scan of a tree that holds sidecars, files of unknown and upper-case
\* extensions and two files whose sidecars carry the same GUID.
\* ---------------------------------------------------------------------------

MaxIndexFiles == 3

\* m.mat, notes.txt, n.mat and s.shader (both with GUID gm), b.png.meta,
\* T.PNG, U.META
IndexFiles == {1, 3, 4, 7, 8, 9, 10}

IndexTrees ==
  { SortedSeq(S) : S \in { T \in SUBSET IndexFiles :
                             Cardinality(T) <= MaxIndexFiles } }

InitIndex ==
  /\ tree \in IndexTrees
  /\ cancel_flag = FALSE
  /\ scan_running = FALSE
  /\ assets = {}
  /\ dependencies = {}
  /\ project = [last_scan_time |-> <<>>, file_count |-> 0, updated_at |-> 0]
  /\ clock = 0
  /\ nscans = MaxScans - 1
  /\ wk = [w \in Workers |-> IdleWorker]
  /\ log = [w \in Workers |-> <<>>]
  /\ hist = [w \in Workers |-> IdleHist]
  /\ past = [cancelled |-> FALSE, complete |-> FALSE]
  /\ sb = NoCall /\ rs = NoCall /\ dt = NoCall
  /\ ex = NoCall /\ pj = NoCall /\ wl = NoCall /\ up = NoCall
  /\ pg = NoCall /\ th = NoCall /\ rt = NoCall /\ rc = NoCall

SpecIndex == InitIndex /\ [][Next]_vars

\* C26: an engine GUID that is present is carried by at most one asset of a
\* project, in every reachable catalog state.
C26_GuidUniquePerProject ==
  \A a, b \in assets :
    (a.project_id = b.project_id /\ a.guid # NoneV /\ a.guid = b.guid) => a = b

\* the closed tag set
ClosedKinds == {"texture", "model", "material", "prefab", "audio", "shader",
                "scene", "scriptable_object"}

\* the fixed mapping from extension to kind; NoneV for any other extension
KindTable(ext) ==
  CASE ext \in {"png", "jpg", "jpeg", "tga", "psd", "bmp", "gif", "exr", "hdr"}
         -> "texture"
    [] ext \in {"fbx", "obj", "blend", "dae", "gltf", "glb", "3ds", "max"}
         -> "model"
    [] ext = "mat" -> "material"
    [] ext = "prefab" -> "prefab"
    [] ext \in {"wav", "mp3", "ogg", "aiff", "aif", "flac"} -> "audio"
    [] ext \in {"shader", "shadergraph", "shadersubgraph", "compute", "cginc",
                "hlsl", "glsl"} -> "shader"
    [] ext = "unity" -> "scene"
    [] ext = "asset" -> "scriptable_object"
    [] OTHER -> NoneV

\* file p is a sidecar or has an extension outside the mapping
Excluded(p) ==
  \/ FileAt(p).ext = "meta"
  \/ KindTable(to_lowercase(FileAt(p).ext)) = NoneV

\* the assets the walker has handed over or holds in its open batch, and
\* the rows of the catalog
WalkerAssets == UNION { Range(wk[w].batch) : w \in Workers }

\* C27: every asset the walker emits and every asset row a scan writes has a
\* kind of the closed tag set, the one the fixed extension mapping gives; a
\* file with any other extension and every .meta sidecar is never counted
\* and never becomes an asset.
C27_KindsClosed ==
  /\ \A a \in WalkerAssets \cup assets :
       /\ a.kind \in ClosedKinds
       /\ a.kind = KindTable(to_lowercase(a.ext))
       /\ ~Excluded(a.path)
  /\ \A w \in Workers :
       /\ wk[w].pc = "counting" =>
            wk[w].count =
              Cardinality({ k \in 1..wk[w].i : ~Excluded(tree[k]) })
       /\ wk[w].pc = "indexing" =>
            wk[w].total_count =
              Cardinality({ k \in 1..wk[w].i : ~Excluded(tree[k]) })

\* a scan ran to complete over a tree with a sidecar, a file of unknown
\* extension and an upper-case texture, and wrote the texture's row only
C27_Witness ==
  /\ {3, 8, 9} \subseteq Range(tree)
  /\ \E w \in Workers : Done(w) /\ "complete" \in Range(log[w])
  /\ { a.path : a \in assets } = {9}

\* ---------------------------------------------------------------------------
\* get_or_create_project called by several commands at once.  Each call
\* takes a connection of its own from the pool and runs its SELECT and its
\* INSERT as two statements, outside any transaction.
\* ---------------------------------------------------------------------------

MaxCalls == 3

Callers == {"c1", "c2"}
Roots == {"/proj/a", "/proj/b"}

\* n numbers the calls: the n-th call draws the n-th uuid
IdleCaller == [pc |-> "idle", root |-> NoneV, n |-> 0, outcome |-> NoneV]

InitProject ==
  /\ NoScan
  /\ sb = NoCall /\ rs = NoCall /\ dt = NoCall /\ ex = NoCall
  /\ wl = NoCall /\ up = NoCall
  /\ pg = NoCall /\ th = NoCall /\ rt = NoCall /\ rc = NoCall
  /\ pj = [pc |-> "open",
           projects |-> {},                      \* table projects
           caller |-> [c \in Callers |-> IdleCaller],
           ncalls |-> 0,
           returned |-> {}]                      \* the Ok results so far

\* an INSERT into a table without the UNIQUE constraint on root_path
insert_project_any(rows, row) == [ok |-> TRUE, rows |-> rows \cup {row}]

\* INSERT INTO projects: root_path is UNIQUE, id is the primary key
insert_project(rows, row) ==
  IF \E r \in rows : r.root_path = row.root_path \/ r.id = row.id
  THEN [ok |-> FALSE, rows |-> rows]
  ELSE [ok |-> TRUE, rows |-> rows \cup {row}]

\* SELECT ... FROM projects WHERE root_path = ?1
select_project(rows, root_path) == { r \in rows : r.root_path = root_path }

\* set_project_root(path) calls get_or_create_project(path, name)
ProjectCall(c) ==
  /\ pj.caller[c].pc = "idle"
  /\ pj.ncalls < MaxCalls
  /\ \E root \in Roots :
       pj' = [pj EXCEPT !.caller[c] = [pc |-> "select", root |-> root,
                                       n |-> pj.ncalls + 1,
                                       outcome |-> NoneV],
                        !.ncalls = @ + 1]
  /\ UNCHANGED <<scan, more, sb, rs, dt, ex, wl, up>>

\* get_or_create_project: try to find existing project; a query that fails
\* is taken for "no row" by .ok()
ProjectSelect(c) ==
  /\ pj.caller[c].pc = "select"
  /\ \E query \in {"ok", "error"} :
       LET found == IF query = "ok"
                    THEN select_project(pj.projects, pj.caller[c].root)
                    ELSE {}
       IN IF found # {}
          THEN \E r \in found :
                 pj' = [pj EXCEPT
                   !.caller[c] = [IdleCaller EXCEPT !.outcome = "found"],
                   !.returned = @ \cup {[root_path |-> pj.caller[c].root,
                                         id |-> r.id]}]
          ELSE pj' = [pj EXCEPT !.caller[c].pc = "insert"]
  /\ UNCHANGED <<scan, more, sb, rs, dt, ex, wl, up>>

\* get_or_create_project: create new project; a failed INSERT returns Err
ProjectInsert(c) ==
  /\ pj.caller[c].pc = "insert"
  /\ LET row == [id |-> pj.caller[c].n,
                 root_path |-> pj.caller[c].root]
         ins == insert_project(pj.projects, row)
     IN IF ins.ok
        THEN pj' = [pj EXCEPT
               !.projects = ins.rows,
               !.caller[c] = [IdleCaller EXCEPT !.outcome = "created"],
               !.returned = @ \cup {[root_path |-> row.root_path,
                                     id |-> row.id]}]
        ELSE pj' = [pj EXCEPT
               !.caller[c] = [IdleCaller EXCEPT !.outcome = "Err"]]
  /\ UNCHANGED <<scan, more, sb, rs, dt, ex, wl, up>>

NextProject ==
  \E c \in Callers : ProjectCall(c) \/ ProjectSelect(c) \/ ProjectInsert(c)

SpecProject == InitProject /\ [][NextProject]_vars

\* C28: any number of calls of get_or_create_project with the same root,
\* one after the other or at once, leave exactly one project row for that
\* root, and every call that succeeds returns that row's id.
C28_OneProjectPerRoot ==
  /\ \A root \in Roots :
       Cardinality(select_project(pj.projects, root)) <= 1
  /\ \A ret \in pj.returned :
       select_project(pj.projects, ret.root_path) =
         {[id |-> ret.id, root_path |-> ret.root_path]}

\* two calls for one root: one created the row, the INSERT of the other
\* failed on the root that was there by then
C28_Witness ==
  /\ pj.caller["c1"].outcome = "created"
  /\ pj.caller["c2"].outcome = "Err"
  /\ Cardinality(pj.projects) = 1
  /\ pj.ncalls = 2

\* ---------------------------------------------------------------------------
\* should_ignore_path.  A string is the sequence of its characters; "T"
\* stands for a directory name such as Temp, "Tx" for a longer name that
\* begins with it, such as Templates.
\* ---------------------------------------------------------------------------

MaxPathLen == 4
MaxPatternLen == 2
MaxPatterns == 2

PathChars == {"A", "T", "x", "/", "\\"}
PatternChars == {"T", "/"}
Separators == {"/", "\\"}

\* str::starts_with
starts_with(str, prefix) ==
  /\ Len(prefix) <= Len(str)
  /\ SubSeq(str, 1, Len(prefix)) = prefix

\* str::contains
contains(str, pat) ==
  \E i \in 1..(Len(str) - Len(pat) + 1) : SubSeq(str, i, i + Len(pat) - 1) = pat

RECURSIVE trim_end_matches(_, _)
\* str::trim_end_matches(c): every trailing c is removed
trim_end_matches(str, c) ==
  IF str # <<>> /\ str[Len(str)] = c
  THEN trim_end_matches(SubSeq(str, 1, Len(str) - 1), c)
  ELSE str

\* should_ignore_path, on the path relative to the root
should_ignore_path(relative_str, ignore_patterns) ==
  \E k \in DOMAIN ignore_patterns :
    LET pattern_normalized == trim_end_matches(ignore_patterns[k], "/")
    IN \/ starts_with(relative_str, pattern_normalized)
       \/ contains(relative_str, <<"/">> \o pattern_normalized)
       \/ contains(relative_str, <<"\\">> \o pattern_normalized)

\* the strings of at most n characters over an alphabet
Strings(chars, n) == UNION { [1..k -> chars] : k \in 0..n }

\* the relative paths strip_prefix can give: segments that are not empty,
\* one separator between two of them
RelativePaths(n) ==
  { str \in Strings(PathChars, n) :
      /\ str # <<>>
      /\ str[1] \notin Separators /\ str[Len(str)] \notin Separators
      /\ \A i \in 1..(Len(str) - 1) :
           ~(str[i] \in Separators /\ str[i + 1] \in Separators) }

\* the ignore patterns of the settings: each names a directory
Patterns(n) ==
  { pat \in Strings(PatternChars, n) : trim_end_matches(pat, "/") # <<>> }

PatternLists(k, n) == UNION { [1..j -> Patterns(n)] : j \in 0..k }

InitIgnore ==
  /\ NoScan
  /\ sb = NoCall /\ rs = NoCall /\ dt = NoCall /\ ex = NoCall
  /\ pj = NoCall /\ up = NoCall
  /\ pg = NoCall /\ th = NoCall /\ rt = NoCall /\ rc = NoCall
  /\ \E relative_str \in RelativePaths(MaxPathLen),
        ignore_patterns \in PatternLists(MaxPatterns, MaxPatternLen) :
       wl = [pc |-> "call", relative_str |-> relative_str,
             ignore_patterns |-> ignore_patterns, ignored |-> FALSE]

\* should_ignore_path(path, root, ignore_patterns)
IgnoreCall ==
  /\ wl.pc = "call"
  /\ wl' = [wl EXCEPT !.pc = "returned",
                      !.ignored = should_ignore_path(wl.relative_str,
                                                     wl.ignore_patterns)]
  /\ UNCHANGED <<scan, more, sb, rs, dt, ex, pj, up>>

NextIgnore == IgnoreCall

SpecIgnore == InitIgnore /\ [][NextIgnore]_vars

\* a pattern with its trailing / trimmed
Trimmed(pattern) ==
  IF pattern # <<>> /\ pattern[Len(pattern)] = "/"
  THEN SubSeq(pattern, 1, Len(pattern) - 1)
  ELSE pattern

\* str holds pat at position i, and pat ends there where a segment ends
SegmentsAt(str, i, pat) ==
  /\ i + Len(pat) - 1 <= Len(str)
  /\ SubSeq(str, i, i + Len(pat) - 1) = pat
  /\ \/ i + Len(pat) - 1 = Len(str)
     \/ str[i + Len(pat)] \in Separators

\* the path starts with the pattern as a path prefix, or one of its
\* segments, after either separator, is the pattern
IgnoredByRule(str, pattern) ==
  LET pat == Trimmed(pattern)
  IN \/ SegmentsAt(str, 1, pat)
     \/ \E i \in 2..Len(str) : str[i - 1] \in Separators /\ SegmentsAt(str, i, pat)

\* C29: a path is ignored if and only if, for some ignore pattern with its
\* trailing / trimmed, the relative path starts with the pattern as a path
\* prefix or one of its path segments, with either separator, is the pattern.
C29_IgnoreRule ==
  wl.pc = "returned" =>
    (wl.ignored <=>
       \E k \in DOMAIN wl.ignore_patterns :
         IgnoredByRule(wl.relative_str, wl.ignore_patterns[k]))

\* ---------------------------------------------------------------------------
\* The walk of count_scannable_files and scan_files_batch over a tree of
\* directories.  jwalk reads a directory, hands its entries to the
\* process_read_dir callback, yields the entries the callback retained and
\* descends into the directories among them.
\* ---------------------------------------------------------------------------

MaxDirDepth == 2
MaxWalkFiles == 2

\* directory names, and the name of the one scannable file a directory can hold
DirNames == << <<"T">>, <<"T", "x">>, <<"A">> >>
FileName == <<"f">>

\* a directory is the sequence of the names from the root down to it
DirsUpTo(depth) == UNION { [1..k -> Range(DirNames)] : k \in 0..depth }

RECURSIVE PathString(_)
\* the relative path of an entry, its names joined by /
PathString(names) ==
  IF names = <<>> THEN <<>>
  ELSE IF Len(names) = 1 THEN names[1]
  ELSE names[1] \o <<"/">> \o PathString(Tail(names))

\* the directories that exist in a tree given by the directories that hold
\* a file
DirsOf(files) ==
  UNION { { SubSeq(d, 1, k) : k \in 0..Len(d) } : d \in files }

\* fs::read_dir(dir): its sub-directories in name order, then its file
read_dir(files, dir) ==
  LET subs == SelectSeq(DirNames, LAMBDA n : Append(dir, n) \in DirsOf(files))
  IN [k \in 1..Len(subs) |-> [path |-> Append(dir, subs[k]), is_file |-> FALSE]]
     \o (IF dir \in files
         THEN <<[path |-> Append(dir, FileName), is_file |-> TRUE]>>
         ELSE <<>>)

\* a callback that retains every entry
retain_all(children, ignore_patterns) == children

\* process_read_dir: children.retain(|e| !should_ignore_path(e.path(), ..))
retain(children, ignore_patterns) ==
  SelectSeq(children,
            LAMBDA c : ~should_ignore_path(PathString(c.path), ignore_patterns))

\* the trees walked: at most MaxWalkFiles files, each in a directory of its own
WalkTrees ==
  UNION { { Range(f) : f \in [1..k -> DirsUpTo(MaxDirDepth)] } :
            k \in 0..MaxWalkFiles }

\* the ignore patterns of a walk: none, T, T/
WalkPatterns == { <<>>, << <<"T">> >>, << <<"T", "/">> >> }

InitWalk ==
  /\ NoScan
  /\ sb = NoCall /\ rs = NoCall /\ dt = NoCall /\ ex = NoCall
  /\ pj = NoCall /\ up = NoCall
  /\ pg = NoCall /\ th = NoCall /\ rt = NoCall /\ rc = NoCall
  /\ \E files \in WalkTrees, ignore_patterns \in WalkPatterns,
        op \in {"count_scannable_files", "scan_files_batch"} :
       /\ wl = [pc |-> "walk", op |-> op, files |-> files,
                ignore_patterns |-> ignore_patterns,
                pending |-> << <<>> >>,   \* directories still to read
                read |-> {},              \* directories whose entries were read
                count |-> 0,              \* count / total_count
                batch |-> <<>>]           \* relative paths handed to the callback

\* the walk reads its next directory and the loop body runs for the files
\* it yields: the file is counted, or built into an Asset and batched
WalkReadDir ==
  /\ wl.pc = "walk" /\ wl.pending # <<>>
  /\ LET dir == Head(wl.pending)
         children == retain(read_dir(wl.files, dir), wl.ignore_patterns)
         dirs == SelectSeq(children, LAMBDA c : ~c.is_file)
         yielded == SelectSeq(children, LAMBDA c : c.is_file)
     IN wl' = [wl EXCEPT
          !.read = @ \cup {dir},
          !.pending = [k \in 1..Len(dirs) |-> dirs[k].path] \o Tail(wl.pending),
          !.count = @ + Len(yielded),
          !.batch = IF wl.op = "scan_files_batch"
                    THEN @ \o [k \in 1..Len(yielded) |-> yielded[k].path]
                    ELSE @]
  /\ UNCHANGED <<scan, more, sb, rs, dt, ex, pj, up>>

\* the walk is over: Ok(count), or the remaining batch and Ok((total_count, stats))
WalkEnd ==
  /\ wl.pc = "walk" /\ wl.pending = <<>>
  /\ wl' = [wl EXCEPT !.pc = "returned"]
  /\ UNCHANGED <<scan, more, sb, rs, dt, ex, pj, up>>

NextWalk == WalkReadDir \/ WalkEnd

SpecWalk == InitWalk /\ [][NextWalk]_vars

\* the directory is ignored: the code's test or the rule of the patterns
\* says so
IgnoredDir(dir) ==
  /\ dir # <<>>
  /\ \/ should_ignore_path(PathString(dir), wl.ignore_patterns)
     \/ \E k \in DOMAIN wl.ignore_patterns :
          IgnoredByRule(PathString(dir), wl.ignore_patterns[k])

\* the directory or one of the directories above it is ignored
BelowIgnored(dir) == \E k \in 1..Len(dir) : IgnoredDir(SubSeq(dir, 1, k))

\* the files of the tree that are under no ignored directory and are not
\* ignored themselves
KeptFiles ==
  { d \in wl.files :
      /\ ~BelowIgnored(d)
      /\ ~should_ignore_path(PathString(Append(d, FileName)),
                             wl.ignore_patterns) }

\* C30: ignored directories are pruned before descent: neither walk reads
\* the entries of an ignored directory or of a directory below one, and no
\* file below an ignored directory is counted or handed to the callback.
C30_IgnoredPruned ==
  wl.pc \in {"walk", "returned"} =>
    /\ \A dir \in wl.read : ~BelowIgnored(dir)
    /\ \A k \in DOMAIN wl.batch :
         ~BelowIgnored(SubSeq(wl.batch[k], 1, Len(wl.batch[k]) - 1))
    /\ wl.count <= Cardinality(KeptFiles)
    /\ wl.pc = "returned" => wl.count = Cardinality(KeptFiles)

\* a walk returned that read a directory beside an ignored one which holds
\* a file and has a directory with a file below it
C30_Witness ==
  /\ wl.pc = "returned"
  /\ wl.count = 1
  /\ \E d \in wl.files :
       /\ Len(d) = 2
       /\ IgnoredDir(SubSeq(d, 1, 1))
       /\ ~IgnoredDir(<<d[2]>>)
  /\ Cardinality(wl.read) = 2

\* ---------------------------------------------------------------------------
\* get_assets: the pages 0, 1, 2, ... of one query read one after the other
\* from a catalog that does not change.  File names and paths are sequences
\* of characters.
\* ---------------------------------------------------------------------------

\* rows the catalog of a paging session can hold
MaxPageRows == 3
\* page_size goes from 1 to MaxPageSize
MaxPageSize == 2

\* the directories and file names of the catalog: x/a.p, y/a.p, x/b.m, y/b.m
PageDirs == { <<"x">>, <<"y">> }
PageNames == { <<"a", ".", "p">>, <<"b", ".", "m">> }

\* the asset row of file_name in dir, as scan_files_batch builds it
PageRow(project_id, dir, file_name) ==
  [id |-> <<project_id, dir, file_name>>, project_id |-> project_id,
   relative_path |-> dir \o <<"/">> \o file_name, file_name |-> file_name,
   kind |-> IF file_name[Len(file_name)] = "p" THEN "texture" ELSE "material"]

\* the byte of a character: file_name ASC compares with the BINARY collation
Byte(c) ==
  CASE c = " " -> 32 [] c = "." -> 46 [] c = "/" -> 47 [] c = "a" -> 97
    [] c = "b" -> 98 [] c = "m" -> 109 [] c = "p" -> 112 [] c = "x" -> 120
    [] c = "y" -> 121

\* s sorts before t
RECURSIVE Before(_, _)
Before(s, t) ==
  IF t = <<>> THEN FALSE
  ELSE IF s = <<>> THEN TRUE
  ELSE IF Byte(s[1]) # Byte(t[1]) THEN Byte(s[1]) < Byte(t[1])
  ELSE Before(Tail(s), Tail(t))

\* the tokens of a column in the full-text index: the maximal runs of
\* letters (the default tokenizer of fts5)
Letters == {"a", "b", "m", "p", "x", "y"}
Tokens(str) ==
  { SubSeq(str, i, j) : <<i, j>> \in
      { ij \in (1..Len(str)) \X (1..Len(str)) :
          /\ ij[1] <= ij[2]
          /\ \A k \in ij[1]..ij[2] : str[k] \in Letters
          /\ ij[1] = 1 \/ str[ij[1] - 1] \notin Letters
          /\ ij[2] = Len(str) \/ str[ij[2] + 1] \notin Letters } }

\* query.trim()
trim(str) == SelectSeq(str, LAMBDA c : c # " ")

\* assets_fts MATCH 'query*': a token of file_name or relative_path begins
\* with the query
fts_match(r, query) ==
  \E t \in Tokens(r.file_name) \cup Tokens(r.relative_path) : starts_with(t, query)

\* the WHERE clause of get_assets; search_query and asset_types are <<>> for
\* None and <<v>> for Some(v)
where_clause(rows, project_id, search_query, asset_types) ==
  { r \in rows :
      /\ r.project_id = project_id
      /\ (search_query # <<>> /\ trim(search_query[1]) # <<>>) =>
           fts_match(r, search_query[1])
      /\ (asset_types # <<>> /\ asset_types[1] # {}) => r.kind \in asset_types[1] }

\* ORDER BY a.file_name ASC: the orders the statement allows.  Rows with
\* the same file_name come in an order the statement leaves to the engine
order_by_file_name(S) ==
  { o \in [1..Cardinality(S) -> S] :
      /\ \A i, j \in 1..Cardinality(S) : i # j => o[i] # o[j]
      /\ \A i, j \in 1..Cardinality(S) :
           i < j => ~Before(o[j].file_name, o[i].file_name) }

\* LIMIT page_size OFFSET page * page_size
limit_offset(o, page_size, offset) ==
  SubSeq(o, offset + 1, IF offset + page_size < Len(o) THEN offset + page_size
                                                       ELSE Len(o))

\* the catalogs read: every file belongs to p1, to p2 or to neither
PageCatalogs ==
  { UNION { { PageRow(proj, f[1], f[2]) : f \in { g \in PageDirs \X PageNames : owner[g] = proj } } :
              proj \in {ProjectId, OtherProject} } :
      owner \in [PageDirs \X PageNames -> {ProjectId, OtherProject, NoneV}] }

InitPaging ==
  /\ tree = <<>>
  /\ cancel_flag = FALSE
  /\ scan_running = FALSE
  /\ assets \in { c \in PageCatalogs : Cardinality(c) <= MaxPageRows }
  /\ dependencies = {}
  /\ project = [last_scan_time |-> <<>>, file_count |-> 0, updated_at |-> 0]
  /\ clock = 0
  /\ nscans = 0
  /\ wk = [w \in Workers |-> IdleWorker]
  /\ log = [w \in Workers |-> <<>>]
  /\ hist = [w \in Workers |-> IdleHist]
  /\ past = [cancelled |-> FALSE, complete |-> FALSE]
  /\ sb = NoCall /\ rs = NoCall /\ dt = NoCall /\ ex = NoCall
  /\ pj = NoCall /\ wl = NoCall /\ up = NoCall
  /\ th = NoCall /\ rt = NoCall /\ rc = NoCall
  /\ \E search_query \in { <<>>, << <<>> >>, << <<" ">> >>, << <<"a">> >>, << <<"x">> >> },
        asset_types \in { <<>>, <<{}>>, <<{"texture"}>> },
        page_size \in 1..MaxPageSize :
       pg = [pc |-> "reading", search_query |-> search_query,
             asset_types |-> asset_types, page_size |-> page_size,
             page |-> 0, pages |-> <<>>, totals |-> {}]

\* get_assets(ProjectId, search_query, asset_types, page, page_size) for the
\* next page: the count statement, then the page statement
GetAssets ==
  /\ pg.pc = "reading"
  /\ LET matching == where_clause(assets, ProjectId, pg.search_query, pg.asset_types)
         total == Cardinality(matching)
     IN  \E o \in order_by_file_name(matching) :
           LET page_assets == limit_offset(o, pg.page_size, pg.page * pg.page_size)
           IN  pg' = [pg EXCEPT
                 !.pages = Append(pg.pages, page_assets),
                 !.totals = pg.totals \cup {total},
                 !.page = pg.page + 1,
                 !.pc = IF page_assets = <<>> THEN "read" ELSE "reading"]
  /\ UNCHANGED <<scan, sb, rs, dt, ex, pj, wl, up, th, rt, rc>>

NextPaging == GetAssets

SpecPaging == InitPaging /\ [][NextPaging]_vars

\* the rows of all pages read so far, in the order read
RECURSIVE Flatten(_)
Flatten(ss) == IF ss = <<>> THEN <<>> ELSE ss[1] \o Flatten(Tail(ss))

MaxThumbRuns == 2
\* batch_size of the generating loop; commands.rs:676 sets 25, scaled down
\* so that a catalog of a few assets needs more than one batch
ThumbBatch == 2

\* the files of the catalog: f.mat, a.png, p.prefab, c.PNG
ThumbFiles == {1, 2, 5, 9}

\* the outcomes of a catalog call
DbOutcomes == {"ok", "error"}

\* UPDATE assets SET thumbnail_path = NULL WHERE project_id = ?
clear_thumbnail_paths(rows, project_id) ==
  { IF r.project_id = project_id THEN [r EXCEPT !.thumbnail_path = NoneV] ELSE r :
      r \in rows }

\* SELECT COUNT(*) of the texture and material assets of the project
count_thumbnail_assets(rows, project_id) ==
  Cardinality({ r \in rows : r.project_id = project_id
                             /\ r.kind \in {"texture", "material"} })

\* the rows of a kind that get_assets_needing_thumbnails selects from
needing_thumbnails(rows, project_id, kind) ==
  { r \in rows : r.project_id = project_id /\ r.kind = kind
                 /\ r.thumbnail_path = NoneV }

Min(a, b) == IF a < b THEN a ELSE b

\* get_assets_needing_thumbnails: LIMIT rows, textures before materials;
\* the statement leaves the choice among the rows of a kind to the engine
get_assets_needing_thumbnails(rows, project_id, limit) ==
  LET tex == needing_thumbnails(rows, project_id, "texture")
      mat == needing_thumbnails(rows, project_id, "material")
  IN  { T \cup M : <<T, M>> \in
          { tm \in (SUBSET tex) \X (SUBSET mat) :
              /\ Cardinality(tm[1]) = Min(limit, Cardinality(tex))
              /\ Cardinality(tm[2]) =
                   Min(limit - Cardinality(tm[1]), Cardinality(mat)) } }

\* generate_texture_thumbnail returns Some: the format is one it reads and
\* the image on disk can be opened and saved
texture_thumbnail(asset, readable) ==
  /\ to_lowercase(asset.ext) \in {"png", "jpg", "jpeg", "tga", "bmp", "gif", "psd"}
  /\ asset.path \in readable

\* generate_thumbnail returns Some: a texture as above, a material whose
\* file parses to at least one texture slot
generate_thumbnail(asset, readable) ==
  CASE asset.kind = "texture" -> texture_thumbnail(asset, readable)
    [] asset.kind = "material" -> asset.path \in readable /\ FileAt(asset.path).text # <<>>
    [] OTHER -> FALSE

\* the texture a material thumbnail is made from, when the material has no
\* thumbnail file yet: the asset its first texture slot resolves to, which
\* gets a thumbnail of its own on the way
main_texture(rows, asset, readable, files) ==
  IF asset.kind # "material" \/ asset.id \in files THEN {}
  ELSE LET found == get_asset_by_guid(rows, asset.project_id,
                                      FileAt(asset.path).text[1])
       IN  { t \in Range(found) : texture_thumbnail(t, readable) }

\* no worker, before the first command
IdleThumbs ==
  [pc |-> "idle", runs |-> 0, log |-> <<>>, total |-> 0, generated |-> 0,
   prevCancelled |-> FALSE, requested |-> FALSE, idleRequested |-> FALSE]

InitThumbs ==
  /\ tree = <<>>
  /\ cancel_flag = FALSE
  /\ scan_running = FALSE
  /\ \E present \in SUBSET ThumbFiles, with_thumb \in SUBSET ThumbFiles,
        readable \in SUBSET ThumbFiles :
       /\ with_thumb \subseteq present
       /\ readable \subseteq present
       /\ assets = { [CatalogRow(p, ProjectId) EXCEPT
                        !.thumbnail_path = IF p \in with_thumb THEN "thumb" ELSE NoneV] :
                     p \in present }
       /\ th = IdleThumbs @@
               [readable |-> readable,
                files |-> { CatalogRow(p, ProjectId).id : p \in with_thumb }]
  /\ dependencies = {}
  /\ project = [last_scan_time |-> <<>>, file_count |-> 0, updated_at |-> 0]
  /\ clock = 0
  /\ nscans = 0
  /\ wk = [w \in Workers |-> IdleWorker]
  /\ log = [w \in Workers |-> <<>>]
  /\ hist = [w \in Workers |-> IdleHist]
  /\ past = [cancelled |-> FALSE, complete |-> FALSE]
  /\ sb = NoCall /\ rs = NoCall /\ dt = NoCall /\ ex = NoCall
  /\ pj = NoCall /\ wl = NoCall /\ up = NoCall
  /\ pg = NoCall /\ rt = NoCall /\ rc = NoCall

ThumbActive == th.pc \in {"check", "loop"}

\* the worker emits a last event, or none, and returns
ThumbReturn(events) ==
  th' = [th EXCEPT !.pc = "done", !.log = th.log \o events,
                   !.idleRequested = FALSE]

\* regenerate_thumbnails: the command spawns the worker, which emits the
\* counting event; the command leaves the cancel flag as it is
RegenerateThumbnails ==
  /\ ~ThumbActive
  /\ th.runs < MaxThumbRuns
  /\ th' = [th EXCEPT !.pc = "check", !.runs = th.runs + 1,
                      !.log = <<"counting">>, !.total = 0, !.generated = 0,
                      !.prevCancelled = th.prevCancelled
                                        \/ "cancelled" \in Range(th.log),
                      !.requested = th.idleRequested]
  /\ UNCHANGED <<scan, sb, rs, dt, ex, pj, wl, up, pg, rt, rc>>

\* cancel_operation
ThumbCancel ==
  /\ request_cancel
  /\ th' = IF ThumbActive THEN [th EXCEPT !.requested = TRUE]
                          ELSE [th EXCEPT !.idleRequested = TRUE]
  /\ UNCHANGED <<tree, scan_running, assets, dependencies, project, clock,
                 nscans, wk, log, hist, past,
                 sb, rs, dt, ex, pj, wl, up, pg, rt, rc>>

\* phase 1: the cancel check, clear_thumbnail_paths, count_thumbnail_assets
ThumbCount ==
  /\ th.pc = "check"
  /\ IF is_cancelled
       THEN /\ ThumbReturn(<<"cancelled">>)
            /\ UNCHANGED assets
       ELSE \E cleared \in DbOutcomes, counted \in DbOutcomes :
              LET rows == IF cleared = "ok"
                            THEN clear_thumbnail_paths(assets, ProjectId)
                            ELSE assets
                  total == count_thumbnail_assets(rows, ProjectId)
              IN  /\ assets' = rows
                  /\ IF counted = "error" THEN ThumbReturn(<<>>)
                     ELSE IF total = 0 THEN ThumbReturn(<<"complete">>)
                     ELSE th' = [th EXCEPT !.pc = "loop", !.total = total]
  /\ UNCHANGED <<tree, cancel_flag, scan_running, dependencies, project, clock,
                 nscans, wk, log, hist, past,
                 sb, rs, dt, ex, pj, wl, up, pg, rt, rc>>

\* phase 2, one turn of the loop: the cancel check, the generating event,
\* generate_thumbnails_for_project; the loop ends on Ok(0) and on Err
ThumbGenerate ==
  /\ th.pc = "loop"
  /\ IF is_cancelled
       THEN /\ ThumbReturn(<<"cancelled">>)
            /\ UNCHANGED assets
       ELSE \E fetched \in DbOutcomes :
              IF fetched = "error"
                THEN /\ ThumbReturn(<<"generating", "complete">>)
                     /\ UNCHANGED assets
                ELSE \E batch \in get_assets_needing_thumbnails(assets, ProjectId,
                                                               ThumbBatch) :
                  LET made == { a \in batch : generate_thumbnail(a, th.readable) }
                      also == UNION { main_texture(assets, a, th.readable, th.files) :
                                        a \in made }
                      ids == { a.id : a \in made \cup also }
                  IN  /\ assets' = { IF r.id \in ids
                                       THEN [r EXCEPT !.thumbnail_path = "thumb"]
                                       ELSE r : r \in assets }
                      /\ IF made = {}
                           THEN ThumbReturn(<<"generating", "complete">>)
                           ELSE th' = [th EXCEPT
                                  !.log = Append(th.log, "generating"),
                                  !.generated = th.generated + Cardinality(made),
                                  !.files = th.files \cup ids]
  /\ UNCHANGED <<tree, cancel_flag, scan_running, dependencies, project, clock,
                 nscans, wk, log, hist, past,
                 sb, rs, dt, ex, pj, wl, up, pg, rt, rc>>

NextThumbs ==
  \/ RegenerateThumbnails
  \/ ThumbCancel
  \/ ThumbCount
  \/ ThumbGenerate

SpecThumbs == InitThumbs /\ [][NextThumbs]_vars

\* the worker is never stopped while it has a step to take
FairThumbs == SpecThumbs /\ WF_vars(ThumbCount) /\ WF_vars(ThumbGenerate)

\* every run of the worker returns
ThumbsTerminate == ThumbActive ~> ~ThumbActive

\* C32: the thumbnail-progress events of a regenerate_thumbnails run are
\* counting, then zero or more generating, then exactly one terminal event
\* with phase complete or cancelled.
C32_ThumbEvents ==
  th.pc = "done" =>
    /\ Len(th.log) >= 2
    /\ th.log[1] = "counting"
    /\ \A i \in 2..(Len(th.log) - 1) : th.log[i] = "generating"
    /\ Last(th.log) \in Terminal

\* C39: a regenerate_thumbnails started after an earlier operation was
\* cancelled, with no cancel request since that operation ended, does not
\* emit cancelled.
C39_CancelNotCarriedOver ==
  (th.pc = "done" /\ th.prevCancelled /\ ~th.requested) =>
    "cancelled" \notin Range(th.log)

\* ---------------------------------------------------------------------------
\* set_project_root and start_scan, one command after the other: the root
\* in the settings, table projects, and the rows a scan writes.  A scan is
\* one step here: the walk of the root, the upserts, the scan time.
\* ---------------------------------------------------------------------------

\* commands issued
MaxRootCalls == 4

\* a path that is no directory
NoDir == "/nodir"

\* the classified files under a root, by relative path
RootFiles(root) == IF root = "/proj/a" THEN <<1, 2>> ELSE <<2>>

\* a project id no row of table projects has
UnknownProject == 0

\* Indexer::upsert_batch: upsert_asset for every asset of the batch
RECURSIVE upsert_batch(_, _)
upsert_batch(rows, batch) ==
  IF batch = <<>> THEN rows
  ELSE upsert_batch(upsert_asset(rows, batch[1]), Tail(batch))

\* the Asset scan_files_batch builds for the file at relative path p under
\* root, for the project id it was handed
RootAsset(n, project_id, root, p) ==
  [NewAsset(n, p, 0) EXCEPT !.project_id = project_id]
    @@ [absolute_path |-> <<root, p>>]

\* get_project_by_path(settings.project_root.as_deref().unwrap_or(""))
get_project_by_path(rows, project_root) ==
  select_project(rows, IF project_root = NoneV THEN "" ELSE project_root)

InitRoots ==
  /\ NoScan
  /\ sb = NoCall /\ rs = NoCall /\ dt = NoCall /\ ex = NoCall
  /\ pj = NoCall /\ wl = NoCall /\ up = NoCall
  /\ pg = NoCall /\ th = NoCall /\ rc = NoCall
  /\ rt = [pc |-> "open",
           project_root |-> NoneV,      \* settings.project_root
           projects |-> {},             \* table projects
           ncalls |-> 0,
           last |-> <<>>]               \* the last command and its result

\* set_project_root(path)
SetProjectRoot ==
  /\ rt.ncalls < MaxRootCalls
  /\ \E path \in Roots \cup {NoDir} :
       IF path = NoDir
         THEN rt' = [rt EXCEPT !.ncalls = @ + 1,
                               !.last = <<"set_project_root", path, "Err">>]
         ELSE LET found == select_project(rt.projects, path)
                  row == [id |-> rt.ncalls + 1, root_path |-> path,
                          file_count |-> 0]
                  created == insert_project(rt.projects, row)
              IN  rt' = [rt EXCEPT
                    !.projects = IF found # {} THEN rt.projects ELSE created.rows,
                    !.project_root = path,
                    !.ncalls = @ + 1,
                    !.last = <<"set_project_root", path, "Ok">>]
  /\ UNCHANGED <<scan, sb, rs, dt, ex, pj, wl, up, pg, th, rc>>

\* start_scan(project_id) and the worker it spawns, run to its end
StartScanOfRoot ==
  /\ rt.ncalls < MaxRootCalls
  /\ \E project_id \in { r.id : r \in rt.projects } \cup {UnknownProject} :
       LET found == get_project_by_path(rt.projects, rt.project_root) IN
       IF found = {}
         THEN /\ rt' = [rt EXCEPT !.ncalls = @ + 1,
                                  !.last = <<"start_scan", project_id, "Err">>]
              /\ UNCHANGED assets
         ELSE \E prj \in found :
                LET root_path == prj.root_path
                    files == RootFiles(root_path)
                    batch == [i \in 1..Len(files) |->
                                RootAsset(rt.ncalls + 1, project_id, root_path,
                                          files[i])]
                IN  /\ assets' = upsert_batch(assets, batch)
                    /\ rt' = [rt EXCEPT
                         !.projects = { IF r.id = project_id
                                          THEN [r EXCEPT !.file_count = Len(files)]
                                          ELSE r : r \in rt.projects },
                         !.ncalls = @ + 1,
                         !.last = <<"start_scan", project_id, "Ok">>]
  /\ UNCHANGED <<tree, cancel_flag, scan_running, dependencies, project, clock,
                 nscans, wk, log, hist, past,
                 sb, rs, dt, ex, pj, wl, up, pg, th, rc>>

NextRoots == SetProjectRoot \/ StartScanOfRoot

SpecRoots == InitRoots /\ [][NextRoots]_vars

\* C34: after any sequence of set_project_root and start_scan calls, every
\* asset row's absolute path lies under the root path of the project named
\* by its project_id.
C34_RowsUnderOwnRoot ==
  rt.pc # "none" =>
    \A r \in assets :
      \E prj \in rt.projects :
        prj.id = r.project_id /\ prj.root_path = r.absolute_path[1]

\* ---------------------------------------------------------------------------
\* scan_files_batch again: what it returns against what it handed over.
\* ---------------------------------------------------------------------------

\* C40: the total scan_files_batch returns equals the number of assets it
\* passed to the callback, whether the walk ran to its end, was stopped by
\* the cancel flag or by the callback; a walk that ran to its end delivered
\* every new-or-changed asset in exactly one batch, and every batch but the
\* last held exactly batch_size assets.
C40_TotalIsDelivered ==
  sb.pc = "returned" =>
    /\ sb.total_count = Len(sb.emitted)
    /\ ~sb.early =>
         /\ NoRepeat(sb.emitted)
         /\ { a.path : a \in Emitted } = { p \in Walked : ~SameStat(p) }
         /\ \A i \in 1..(Len(sb.sizes) - 1) : sb.sizes[i] = BatchSize
         /\ \A i \in 1..Len(sb.sizes) : sb.sizes[i] \in 1..BatchSize

(***************************************************************************)
(* Scans of a tree that changes between them (commands.rs start_scan,      *)
(* scanner.rs scan_files_batch, indexer.rs, deps.rs).  One scan runs at a  *)
(* time and no cancel is requested; files are deleted, rewritten and their *)
(* sidecars rewritten while no scan runs.  start_scan hands the walk       *)
(* either None, as its call reads, or the map of the project's rows.       *)
(***************************************************************************)
\* paths of the tree: 1 is a material naming GUIDs, 2 a texture, 3 a file
\* of no known kind
RescanFiles == 3

\* scans started, and changes made to the tree, in one behaviour
MaxRescans == 2
MaxEdits == 2

\* the GUID a rewritten sidecar holds
NewGuid == "gz"

\* fs::metadata and the sidecar of the file at p as first written
FirstWritten(p) ==
  [there |-> TRUE, mtime |-> 1, size |-> 1, guid |-> FileAt(p).guid]

\* no file at the path
NoFile == [there |-> FALSE, mtime |-> 0, size |-> 0, guid |-> NoneV]

\* the files of the tree a walk yields and classifies
Present(disk) == { p \in 1..RescanFiles : disk[p].there /\ Scannable(p) }

\* the map of existing assets built from the project's rows:
\* relative_path -> (id, modified_time, size_bytes)
existing_assets(rows, project_id) ==
  LET mine == { r \in rows : r.project_id = project_id } IN
  [p \in { r.path : r \in mine } |->
     LET r == CHOOSE q \in mine : q.path = p
     IN  [id |-> r.id, mtime |-> r.modified_time, size |-> r.size_bytes]]

\* "file unchanged": the map holds the path with the modified time and the
\* size fs::metadata gives now
file_unchanged(existing, p, f) ==
  /\ InMap(existing, p)
  /\ existing[1][p].mtime = f.mtime
  /\ existing[1][p].size = f.size

\* the Asset the walk builds for file f at p: the map's id or a fresh uuid,
\* size and modified time of the file, the GUID read from its sidecar
ScannedAsset(n, existing, p, f, now) ==
  [NewAsset(n, p, now) EXCEPT
     !.id = IF InMap(existing, p) THEN existing[1][p].id ELSE <<n, p>>,
     !.guid = f.guid]
    @@ [modified_time |-> f.mtime, size_bytes |-> f.size]

\* resolve_all_for_project on a table no one else writes: the rows of
\* every in-scope asset are deleted and the rows built from its file
\* inserted; a file that cannot be read yields no rows
resolve_all_for_project(deps, rows, disk, n, now) ==
  LET in_scope == Range(get_parseable_assets(rows, ProjectId))
      kept == { d \in deps : \A a \in in_scope : d.from_asset_id # a.id }
      fresh == UNION { IF ~disk[a.path].there THEN {}
                       ELSE resolve_dependencies_for_asset(n, a, rows, now) :
                       a \in in_scope }
  IN  kept \cup fresh

InitRescan ==
  /\ tree = <<>>
  /\ cancel_flag = FALSE
  /\ scan_running = FALSE
  /\ assets = {}
  /\ dependencies = {}
  /\ project = [last_scan_time |-> <<>>, file_count |-> 0, updated_at |-> 0]
  /\ clock = 0
  /\ nscans = 0
  /\ wk = [w \in Workers |-> IdleWorker]
  /\ log = [w \in Workers |-> <<>>]
  /\ hist = [w \in Workers |-> IdleHist]
  /\ past = [cancelled |-> FALSE, complete |-> FALSE]
  /\ sb = NoCall
  /\ rs = NoCall
  /\ dt = NoCall
  /\ ex = NoCall /\ pj = NoCall /\ wl = NoCall /\ up = NoCall
  /\ pg = NoCall /\ th = NoCall /\ rt = NoCall
  /\ \E there \in SUBSET (1..RescanFiles) :
       rc = [pc |-> "idle", ended |-> NoneV, edits |-> 0,
             disk |-> [p \in 1..RescanFiles |->
                         IF p \in there THEN FirstWritten(p) ELSE NoFile],
             atScan |-> <<>>, existing |-> <<>>, i |-> 0, batch |-> <<>>,
             total_count |-> 0, file_count |-> 0,
             stats |-> [total_files |-> 0, unchanged_skipped |-> 0,
                        new_or_changed |-> 0],
             incremental |-> FALSE, deleted |-> FALSE]

RescanIdle == rc.pc = "idle" /\ rc.edits < MaxEdits

\* a file is deleted from the tree, its sidecar with it
DeleteFile ==
  /\ RescanIdle
  /\ \E p \in 1..RescanFiles :
       /\ rc.disk[p].there
       /\ rc' = [rc EXCEPT !.disk[p] = NoFile, !.edits = rc.edits + 1,
                           !.deleted = TRUE]
  /\ UNCHANGED <<scan, sb, rs, dt, ex, pj, wl, up, pg, th, rt>>

\* a file is written again: its modified time changes
WriteFile ==
  /\ RescanIdle
  /\ \E p \in 1..RescanFiles :
       /\ rc.disk[p].there
       /\ rc' = [rc EXCEPT !.disk[p].mtime = rc.disk[p].mtime + 1,
                           !.edits = rc.edits + 1]
  /\ UNCHANGED <<scan, sb, rs, dt, ex, pj, wl, up, pg, th, rt>>

\* the sidecar of a file is written again with another GUID; the file
\* itself, its modified time and its size stay
WriteSidecar ==
  /\ RescanIdle
  /\ \E p \in 1..RescanFiles :
       /\ rc.disk[p].there
       /\ rc.disk[p].guid # NewGuid
       /\ rc' = [rc EXCEPT !.disk[p].guid = NewGuid, !.edits = rc.edits + 1]
  /\ UNCHANGED <<scan, sb, rs, dt, ex, pj, wl, up, pg, th, rt>>

\* start_scan: the worker is dispatched and reaches the indexing phase
RescanStart ==
  /\ rc.pc = "idle"
  /\ nscans < MaxRescans
  /\ nscans' = nscans + 1
  /\ \E incremental \in BOOLEAN :
       rc' = [rc EXCEPT
                !.pc = "walk", !.ended = NoneV, !.atScan = rc.disk,
                !.existing = IF incremental
                               THEN <<existing_assets(assets, ProjectId)>>
                               ELSE <<>>,
                !.incremental = rc.incremental \/ incremental,
                !.i = 0, !.batch = <<>>, !.total_count = 0,
                !.stats = [total_files |-> 0, unchanged_skipped |-> 0,
                           new_or_changed |-> 0]]
  /\ UNCHANGED <<sb, rs, dt, ex, pj, wl, up, pg, th, rt, tree, cancel_flag,
                 scan_running, assets, dependencies, project, clock, wk, log,
                 hist, past>>

\* scan_files_batch, one iteration of the walk; a full batch goes to the
\* callback, which upserts it
RescanEntry ==
  /\ rc.pc = "walk"
  /\ rc.i < RescanFiles
  /\ LET p == rc.i + 1
         f == rc.disk[p]
     IN
     IF p \notin Present(rc.disk)
       THEN /\ rc' = [rc EXCEPT !.i = p]
            /\ UNCHANGED assets
     ELSE IF file_unchanged(rc.existing, p, f)
       THEN /\ rc' = [rc EXCEPT !.i = p, !.stats = Tally(rc.stats, TRUE)]
            /\ UNCHANGED assets
     ELSE
       LET b == Append(rc.batch, ScannedAsset(nscans, rc.existing, p, f, clock))
           full == Len(b) >= BatchSize
       IN  /\ rc' = [rc EXCEPT !.i = p, !.batch = IF full THEN <<>> ELSE b,
                               !.total_count = rc.total_count + 1,
                               !.stats = Tally(rc.stats, FALSE)]
           /\ assets' = IF full THEN upsert_batch(assets, b) ELSE assets
  /\ UNCHANGED <<sb, rs, dt, ex, pj, wl, up, pg, th, rt, tree, cancel_flag,
                 scan_running, dependencies, project, clock, nscans, wk, log,
                 hist, past>>

\* the walk is over: the remaining batch goes to the callback, the total
\* returned becomes file_count, the dependencies phase begins
RescanEnd ==
  /\ rc.pc = "walk"
  /\ rc.i = RescanFiles
  /\ assets' = upsert_batch(assets, rc.batch)
  /\ rc' = [rc EXCEPT !.pc = "deps", !.batch = <<>>,
                      !.file_count = rc.total_count]
  /\ UNCHANGED <<sb, rs, dt, ex, pj, wl, up, pg, th, rt, tree, cancel_flag,
                 scan_running, dependencies, project, clock, nscans, wk, log,
                 hist, past>>

\* the resolve pass, then update_project_scan_time and the complete event
RescanComplete ==
  /\ rc.pc = "deps"
  /\ dependencies' = resolve_all_for_project(dependencies, assets, rc.disk,
                                             nscans, clock)
  /\ project' = update_project_scan_time(project, rc.file_count, clock)
  /\ rc' = [rc EXCEPT !.pc = "idle", !.ended = "complete"]
  /\ UNCHANGED <<sb, rs, dt, ex, pj, wl, up, pg, th, rt, tree, cancel_flag,
                 scan_running, assets, clock, nscans, wk, log, hist, past>>

NextRescan ==
  \/ DeleteFile
  \/ WriteFile
  \/ WriteSidecar
  \/ RescanStart
  \/ RescanEntry
  \/ RescanEnd
  \/ RescanComplete

SpecRescan == InitRescan /\ [][NextRescan]_vars

\* the last scan ended in complete and the tree is as that scan found it
AfterComplete == rc.pc = "idle" /\ rc.ended = "complete" /\ rc.disk = rc.atScan

\* C35: after a scan ends in complete, the project's asset rows are exactly
\* the classified files present in the tree during that scan: a file that
\* an earlier scan indexed and that was deleted since has no asset row, and
\* no dependency row resolves to it.
C35_RowsAreTheTree ==
  AfterComplete =>
    /\ { r.path : r \in assets } = Present(rc.atScan)
    /\ \A d \in dependencies :
         d.to_asset_id # <<>> => AssetById(d.to_asset_id).path \in Present(rc.atScan)

====
